---- MODULE Spec2Model ----
(***************************************************************************)
(* Dental pricing calculator: the stored tables of modules/database.py,    *)
(* the data-access operations of modules/models.py, the request handlers   *)
(* of app.py, and the pricing calculation calculate_service_price.         *)
(*                                                                         *)
(* Numbers.  Python floats and MySQL DOUBLE/INT values are modelled as     *)
(* exact rationals <<n, d>> with d > 0 in lowest terms.  A pair with       *)
(* d = 0 is not a number: NULL (SQL NULL / Python None), or the exception  *)
(* an arithmetic step raised (ZeroDivisionError, TypeError).  Arithmetic   *)
(* is strict: an exception value propagates, as a raised exception aborts  *)
(* the Python function.  Binary floating-point representation error is not *)
(* modelled; round() is round-half-to-even on the exact value.             *)
(***************************************************************************)
EXTENDS Integers, Sequences, FiniteSets, TLC

----------------------------------------------------------------------------
(* Exact rational arithmetic with exception values *)

NULL == <<0, 0>>
ZeroDivisionError == <<1, 0>>
TypeError == <<2, 0>>

IsNum(x) == x[2] > 0
IsErr(x) == x[2] = 0 /\ x[1] > 0

Abs(n) == IF n < 0 THEN -n ELSE n

RECURSIVE Gcd(_, _)
Gcd(a, b) == IF b = 0 THEN a ELSE Gcd(b, a % b)

\* the rational n/d in lowest terms with positive denominator (d # 0)
Q(n, d) ==
    LET g == Gcd(Abs(n), Abs(d))
        s == IF d < 0 THEN -1 ELSE 1
    IN  <<s * (n \div g), s * (d \div g)>>

I(n) == <<n, 1>>

\* an operand of Python arithmetic: None raises TypeError
Arg(x) == IF x = NULL THEN TypeError ELSE x

\* the exception two operands carry, the left one first (evaluation order)
Exc(a, b) == IF IsErr(Arg(a)) THEN Arg(a) ELSE Arg(b)
Bad(a, b) == IsErr(Arg(a)) \/ IsErr(Arg(b))

\* sums over the least common denominator, so that intermediate values stay small
QAdd(a, b) ==
    IF Bad(a, b) THEN Exc(a, b)
    ELSE LET g == Gcd(a[2], b[2])
         IN  Q(a[1] * (b[2] \div g) + b[1] * (a[2] \div g), (a[2] \div g) * b[2])
QNeg(a) == IF IsErr(Arg(a)) THEN Arg(a) ELSE <<-a[1], a[2]>>
QSub(a, b) == IF Bad(a, b) THEN Exc(a, b) ELSE QAdd(a, QNeg(b))
\* cross-cancel before multiplying, so that intermediate values stay small
QMul(a, b) ==
    IF Bad(a, b) THEN Exc(a, b)
    ELSE LET g1 == Gcd(Abs(a[1]), b[2])
             g2 == Gcd(Abs(b[1]), a[2])
         IN  Q((a[1] \div g1) * (b[1] \div g2), (a[2] \div g2) * (b[2] \div g1))
\* Python's / : a zero divisor raises ZeroDivisionError
QDiv(a, b) ==
    IF Bad(a, b) THEN Exc(a, b)
    ELSE IF b[1] = 0 THEN ZeroDivisionError
    ELSE QMul(a, Q(b[2], b[1]))

\* a < b on numbers
QLt(a, b) == QSub(a, b)[1] < 0
QLe(a, b) == QSub(a, b)[1] <= 0
QAbs(a) == <<Abs(a[1]), a[2]>>

\* a variant of RoundHalfEven that drops the fraction
RoundDown(x) == x[1] \div x[2]

\* Python 3 round(x): the nearest integer, a tie going to the even one
RoundHalfEven(x) ==
    LET f == x[1] \div x[2]
        r == x[1] - f * x[2]
    IN  IF 2 * r < x[2] THEN f
        ELSE IF 2 * r > x[2] THEN f + 1
        ELSE IF f % 2 = 0 THEN f ELSE f + 1

\* Python 3 round(x, 2)
Round2(x) == IF IsErr(Arg(x)) THEN Arg(x) ELSE Q(RoundHalfEven(QMul(x, I(100))), 100)

\* Python truthiness of a number or None: None and 0 are false
Truthy(x) == IsNum(x) /\ x[1] # 0

----------------------------------------------------------------------------
(* calculate_service_price: the arithmetic, on the rows the function read. *)
(* fixed_costs, salaries and equipment_list are sets of rows; a service    *)
(* carries its joined junction rows as sequences (consumables, materials,  *)
(* equipment_list), as get_service_by_id returns them.                     *)

\* sum of f[r] over the rows r of the finite set T
RECURSIVE SumOver(_, _)
SumOver(f, T) ==
    IF T = {} THEN I(0)
    ELSE QAdd(f[CHOOSE x \in T : TRUE], SumOver(f, T \ {CHOOSE x \in T : TRUE}))

\* sum of the values of f, a function on a finite set of rows
SumSet(f) == SumOver(f, DOMAIN f)

\* sum of values[i], values[i + 1], ... in order
RECURSIVE SumFrom(_, _)
SumFrom(values, i) ==
    IF i \notin DOMAIN values THEN I(0)
    ELSE QAdd(values[i], SumFrom(values, i + 1))

\* sum of a sequence of values, in order
SumSeq(values) == SumFrom(values, 1)

\* a variant of TotalFixed that counts the excluded rows too
TotalFixedAllRows(fixed_costs) == SumSet([c \in fixed_costs |-> c.monthly_amount])

\* total_fixed = sum(c['monthly_amount'] for c in fixed_costs if c['included'])
TotalFixed(fixed_costs) ==
    SumSet([c \in {x \in fixed_costs : x.included # 0} |-> c.monthly_amount])

\* total_salaries = sum(s['monthly_salary'] for s in salaries if s['included'])
TotalSalaries(salaries) ==
    SumSet([s \in {x \in salaries : x.included # 0} |-> s.monthly_salary])

\* monthly_depreciation = eq['purchase_cost'] / (eq['life_years'] * 12)
MonthlyDepreciation(eq) == QDiv(eq.purchase_cost, QMul(eq.life_years, I(12)))

\* fixed_depreciation: the loop over the clinic's equipment of type 'fixed'
FixedDepreciation(equipment_list) ==
    SumSet([eq \in {x \in equipment_list : x.allocation_type = "fixed"} |->
               MonthlyDepreciation(eq)])

\* total_monthly_fixed = total_fixed + total_salaries + fixed_depreciation
TotalMonthlyFixed(total_fixed, total_salaries, fixed_depreciation) ==
    QAdd(QAdd(total_fixed, total_salaries), fixed_depreciation)

\* theoretical_hours * (utilization_percent / 100)
EffectiveHours(capacity) ==
    QMul(QMul(QMul(capacity.chairs, capacity.days_per_month), capacity.hours_per_day),
         QDiv(capacity.utilization_percent, I(100)))

\* a variant of ChairHourlyRate without the effective_hours > 0 guard
ChairHourlyRateUnguarded(total_monthly_fixed, effective_hours) ==
    QDiv(total_monthly_fixed, effective_hours)

\* total_monthly_fixed / effective_hours if effective_hours > 0 else 0
ChairHourlyRate(total_monthly_fixed, effective_hours) ==
    IF IsErr(effective_hours) THEN effective_hours
    ELSE IF QLt(I(0), effective_hours) THEN QDiv(total_monthly_fixed, effective_hours)
    ELSE I(0)

\* the doctor fee before the percentage branch: hourly, fixed, or 0
DoctorFee(service) ==
    IF service.doctor_fee_type = "hourly"
    THEN QMul(service.doctor_hourly_fee, service.chair_time_hours)
    ELSE IF service.doctor_fee_type = "fixed" THEN service.doctor_fixed_fee
    ELSE I(0)

\* a variant of EquipmentLineCost that charges an item of any allocation type
EquipmentLineCostAnyType(eq, hours_used) ==
    IF Truthy(eq.monthly_usage_hours) /\ QLt(I(0), eq.monthly_usage_hours)
    THEN QMul(QDiv(QDiv(eq.purchase_cost, QMul(eq.life_years, I(12))),
                   eq.monthly_usage_hours), hours_used)
    ELSE I(0)

\* the cost of hours_used hours of one equipment row: 0 unless it is
\* 'per-hour' with monthly_usage_hours present and positive
EquipmentLineCost(eq, hours_used) ==
    IF eq.allocation_type = "per-hour"
    THEN LET monthly_depreciation == MonthlyDepreciation(eq)
         IN  IF IsErr(monthly_depreciation) THEN monthly_depreciation
             ELSE IF Truthy(eq.monthly_usage_hours) /\ QLt(I(0), eq.monthly_usage_hours)
             THEN QMul(QDiv(monthly_depreciation, eq.monthly_usage_hours), hours_used)
             ELSE I(0)
    ELSE I(0)

\* a variant of EquipmentCost that charges the legacy pair beside the rows
EquipmentCostWithLegacy(service, equipment_list) ==
    QAdd(SumSet([eq \in {x \in equipment_list :
                            /\ x.id = service.equipment_id
                            /\ Truthy(service.equipment_hours_used)} |->
                    EquipmentLineCost(eq, service.equipment_hours_used)]),
         SumSeq([i \in DOMAIN service.equipment_list |->
                    SumSet([e \in {x \in equipment_list :
                                      x.id = service.equipment_list[i].equipment_id} |->
                               EquipmentLineCost(e, service.equipment_list[i].hours_used)])]))

\* equipment_cost: the service_equipment rows when there are any, else the
\* legacy equipment_id / equipment_hours_used pair; details from the clinic's
\* equipment_list, a row it does not hold contributing nothing
EquipmentCost(service, equipment_list) ==
    IF service.equipment_list = <<>> /\ service.equipment_id # 0
       /\ Truthy(service.equipment_hours_used)
    THEN SumSet([eq \in {x \in equipment_list : x.id = service.equipment_id} |->
                    EquipmentLineCost(eq, service.equipment_hours_used)])
    ELSE SumSeq([i \in DOMAIN service.equipment_list |->
                    SumSet([e \in {x \in equipment_list :
                                      x.id = service.equipment_list[i].equipment_id} |->
                               EquipmentLineCost(e, service.equipment_list[i].hours_used)])])

\* a variant of ConsumableUnitCost that tests the custom price for truth, so
\* that a custom price of 0 falls back to the computed default
ConsumableUnitCostTruthy(c) ==
    IF Truthy(c.custom_unit_price) THEN c.custom_unit_price
    ELSE QDiv(QDiv(c.pack_cost, c.cases_per_pack), c.units_per_case)

\* custom_unit_price if it is not None, else pack_cost / cases_per_pack / units_per_case
ConsumableUnitCost(c) ==
    IF c.custom_unit_price # NULL THEN c.custom_unit_price
    ELSE QDiv(QDiv(c.pack_cost, c.cases_per_pack), c.units_per_case)

ConsumablesCost(service) ==
    SumSeq([i \in DOMAIN service.consumables |->
               QMul(ConsumableUnitCost(service.consumables[i]), service.consumables[i].quantity)])

\* custom_unit_price if it is not None, else unit_cost
MaterialUnitCost(m) ==
    IF m.custom_unit_price # NULL THEN m.custom_unit_price ELSE m.unit_cost

LabMaterialsCost(service) ==
    SumSeq([i \in DOMAIN service.materials |->
               QMul(MaterialUnitCost(service.materials[i]), service.materials[i].quantity)])

\* custom_profit_percent if not use_default_profit else default_profit_percent
ProfitPercent(service, settings) ==
    IF service.use_default_profit = 0 THEN service.custom_profit_percent
    ELSE settings.default_profit_percent

\* round(price / rounding) * rounding if rounding > 0 else price
RoundToIncrement(price, rounding) ==
    IF IsErr(Arg(price)) THEN Arg(price)
    ELSE IF IsErr(Arg(rounding)) THEN Arg(rounding)
    ELSE IF QLt(I(0), rounding)
    THEN QMul(I(RoundHalfEven(QDiv(price, rounding))), rounding)
    ELSE price

\* the percentage branch, first block: the three multipliers
PercentageMultipliers(service, settings, profit_percent) ==
    [doctor_percentage |-> QDiv(service.doctor_percentage, I(100)),
     profit_multiplier |-> QAdd(I(1), QDiv(profit_percent, I(100))),
     vat_multiplier |-> QAdd(I(1), QDiv(settings.vat_percent, I(100)))]

\* a variant of PercentageUnrounded that divides by
\* 1 - doctor_percentage * profit_multiplier * vat_multiplier
PercentageUnroundedMarkedUp(m, costs_without_doctor) ==
    m @@ [final_price_before_rounding |->
              QDiv(QMul(QMul(costs_without_doctor, m.profit_multiplier), m.vat_multiplier),
                   QSub(I(1), QMul(QMul(m.doctor_percentage, m.profit_multiplier),
                                   m.vat_multiplier)))]

\* final_price_before_rounding =
\*     (costs_without_doctor * profit_multiplier * vat_multiplier) / (1 - doctor_percentage)
PercentageUnrounded(m, costs_without_doctor) ==
    m @@ [final_price_before_rounding |->
              QDiv(QMul(QMul(costs_without_doctor, m.profit_multiplier), m.vat_multiplier),
                   QSub(I(1), m.doctor_percentage))]

\* rounded_price: rounding applied to the final price first
PercentageRounded(m, rounding) ==
    m @@ [rounded_price |-> RoundToIncrement(m.final_price_before_rounding, rounding)]

\* a variant of PercentageBeforeVat that divides the price before rounding
PercentageBeforeVatUnrounded(m) ==
    m @@ [price_before_vat |-> QDiv(m.final_price_before_rounding, m.vat_multiplier)]

\* price_before_vat = final_price / vat_multiplier, final_price being rounded_price
PercentageBeforeVat(m) ==
    m @@ [price_before_vat |-> QDiv(m.rounded_price, m.vat_multiplier)]

\* a variant of PercentageTotalCost that leaves the profit in the total cost
PercentageTotalCostWithProfit(m) ==
    m @@ [total_cost |-> m.price_before_vat]

\* total_cost = price_before_vat / profit_multiplier
PercentageTotalCost(m) ==
    m @@ [total_cost |-> QDiv(m.price_before_vat, m.profit_multiplier)]

\* a variant of PercentageBreakdown that takes the fee from the unrounded price
PercentageBreakdownUnrounded(m) ==
    [doctor_fee |-> QMul(m.final_price_before_rounding, m.doctor_percentage),
     final_price_before_rounding |-> m.final_price_before_rounding,
     rounded_price |-> m.rounded_price,
     final_price |-> m.rounded_price,
     price_before_vat |-> m.price_before_vat,
     vat_amount |-> QSub(m.rounded_price, m.price_before_vat),
     total_cost |-> m.total_cost,
     profit_amount |-> QSub(m.price_before_vat, m.total_cost)]

\* the components derived from the rounded price
PercentageBreakdown(m) ==
    [doctor_fee |-> QMul(m.rounded_price, m.doctor_percentage),
     final_price_before_rounding |-> m.final_price_before_rounding,
     rounded_price |-> m.rounded_price,
     final_price |-> m.rounded_price,
     price_before_vat |-> m.price_before_vat,
     vat_amount |-> QSub(m.rounded_price, m.price_before_vat),
     total_cost |-> m.total_cost,
     profit_amount |-> QSub(m.price_before_vat, m.total_cost)]

\* the percentage branch: the price from the costs without the doctor fee,
\* rounded first, the fee and the other components derived from the rounded price
PercentagePrice(service, settings, costs_without_doctor, profit_percent) ==
    PercentageBreakdown(PercentageTotalCost(PercentageBeforeVat(
        PercentageRounded(
            PercentageUnrounded(PercentageMultipliers(service, settings, profit_percent),
                                costs_without_doctor),
            settings.rounding_nearest))))

\* the standard branch: profit_amount = total_cost * (profit_percent / 100)
StandardProfit(doctor_fee, total_cost, profit_percent) ==
    [doctor_fee |-> doctor_fee, total_cost |-> total_cost,
     profit_amount |-> QMul(total_cost, QDiv(profit_percent, I(100)))]

\* price_before_vat = total_cost + profit_amount
StandardBeforeVat(m) ==
    m @@ [price_before_vat |-> QAdd(m.total_cost, m.profit_amount)]

\* a variant of StandardVat that charges VAT on the total cost
StandardVatOnCost(m, settings) ==
    m @@ [vat_amount |-> QMul(m.total_cost, QDiv(settings.vat_percent, I(100)))]

\* vat_amount = price_before_vat * (vat_percent / 100)
StandardVat(m, settings) ==
    m @@ [vat_amount |-> QMul(m.price_before_vat, QDiv(settings.vat_percent, I(100)))]

\* final_price = price_before_vat + vat_amount, rounded last
StandardBreakdown(m, settings) ==
    [doctor_fee |-> m.doctor_fee,
     final_price_before_rounding |-> QAdd(m.price_before_vat, m.vat_amount),
     rounded_price |-> RoundToIncrement(QAdd(m.price_before_vat, m.vat_amount),
                                        settings.rounding_nearest),
     final_price |-> QAdd(m.price_before_vat, m.vat_amount),
     price_before_vat |-> m.price_before_vat,
     vat_amount |-> m.vat_amount,
     total_cost |-> m.total_cost,
     profit_amount |-> m.profit_amount]

\* the standard branch (hourly and fixed fee types): profit and VAT on the
\* total cost, the final price rounded last
StandardPrice(doctor_fee, total_cost, settings, profit_percent) ==
    StandardBreakdown(
        StandardVat(StandardBeforeVat(StandardProfit(doctor_fee, total_cost, profit_percent)),
                    settings),
        settings)

\* the fixed cost pool: the three sums over the clinic's cost rows
PoolLocals(fixed_costs, salaries, equipment_list) ==
    [total_fixed |-> TotalFixed(fixed_costs),
     total_salaries |-> TotalSalaries(salaries),
     fixed_depreciation |-> FixedDepreciation(equipment_list)]

\* the pool total and the effective chair hours
CapacityLocals(L, capacity) ==
    L @@ [total_monthly_fixed |->
              TotalMonthlyFixed(L.total_fixed, L.total_salaries, L.fixed_depreciation),
          effective_hours |-> EffectiveHours(capacity)]

\* the chair hourly rate
RateLocals(L) ==
    L @@ [chair_hourly_rate |-> ChairHourlyRate(L.total_monthly_fixed, L.effective_hours)]

\* the cost components of the service
CostLocals(L, service, settings, equipment_list) ==
    L @@ [chair_time_cost |-> QMul(L.chair_hourly_rate, service.chair_time_hours),
          doctor_fee |-> DoctorFee(service),
          equipment_cost |-> EquipmentCost(service, equipment_list),
          consumables_cost |-> ConsumablesCost(service),
          lab_materials_cost |-> LabMaterialsCost(service),
          profit_percent |-> ProfitPercent(service, settings)]

\* materials_cost = consumables_cost + lab_materials_cost
MaterialsLocals(L) ==
    L @@ [materials_cost |-> QAdd(L.consumables_cost, L.lab_materials_cost)]

\* the price of the doctor-fee branch taken: in percentage mode from
\* costs_without_doctor = chair_time_cost + equipment_cost + materials_cost, else
\* from total_cost = chair_time_cost + doctor_fee + equipment_cost + materials_cost
BranchPrice(L, service, settings) ==
    IF service.doctor_fee_type = "percentage"
    THEN PercentagePrice(service, settings,
                         QAdd(QAdd(L.chair_time_cost, L.equipment_cost), L.materials_cost),
                         L.profit_percent)
    ELSE StandardPrice(L.doctor_fee,
                       QAdd(QAdd(QAdd(L.chair_time_cost, L.doctor_fee), L.equipment_cost),
                            L.materials_cost),
                       settings, L.profit_percent)

\* the local variables after the last assignment: those the branch assigned
\* (b) over those assigned before it
FinalLocals(L, b) ==
    [total_fixed |-> L.total_fixed,
     total_salaries |-> L.total_salaries,
     fixed_depreciation |-> L.fixed_depreciation,
     total_monthly_fixed |-> L.total_monthly_fixed,
     effective_hours |-> L.effective_hours,
     chair_hourly_rate |-> L.chair_hourly_rate,
     chair_time_cost |-> L.chair_time_cost,
     equipment_cost |-> L.equipment_cost,
     consumables_cost |-> L.consumables_cost,
     lab_materials_cost |-> L.lab_materials_cost,
     materials_cost |-> L.materials_cost,
     profit_percent |-> L.profit_percent,
     doctor_fee |-> b.doctor_fee,
     final_price_before_rounding |-> b.final_price_before_rounding,
     rounded_price |-> b.rounded_price,
     final_price |-> b.final_price,
     price_before_vat |-> b.price_before_vat,
     vat_amount |-> b.vat_amount,
     total_cost |-> b.total_cost,
     profit_amount |-> b.profit_amount]

PriceLocals(L, service, settings) == FinalLocals(L, BranchPrice(L, service, settings))

\* the local variables of calculate_service_price after its last assignment
Locals(service, settings, capacity, fixed_costs, salaries, equipment_list) ==
    PriceLocals(
        MaterialsLocals(
            CostLocals(
                RateLocals(CapacityLocals(PoolLocals(fixed_costs, salaries, equipment_list),
                                          capacity)),
                service, settings, equipment_list)),
        service, settings)

\* the local variables in the order the function assigns them: the first
\* exception value among them is the exception the call raises
LocalOrder ==
    <<"total_fixed", "total_salaries", "fixed_depreciation", "total_monthly_fixed",
      "effective_hours", "chair_hourly_rate", "chair_time_cost", "equipment_cost",
      "consumables_cost", "lab_materials_cost", "materials_cost",
      "final_price_before_rounding", "rounded_price", "doctor_fee", "final_price",
      "price_before_vat", "vat_amount", "total_cost", "profit_amount">>

Raised(L) ==
    LET bad == {i \in 1..Len(LocalOrder) : IsErr(Arg(L[LocalOrder[i]]))}
    IN  IF bad = {} THEN NULL
        ELSE Arg(L[LocalOrder[CHOOSE i \in bad : \A j \in bad : i <= j]])

\* the dictionary calculate_service_price returns
PriceRecord(service, settings, L) ==
    [service_name |-> service.name,
     chair_time_cost |-> Round2(L.chair_time_cost),
     doctor_fee |-> Round2(L.doctor_fee),
     equipment_cost |-> Round2(L.equipment_cost),
     consumables_cost |-> Round2(L.consumables_cost),
     lab_materials_cost |-> Round2(L.lab_materials_cost),
     materials_cost |-> Round2(L.materials_cost),
     total_cost |-> Round2(L.total_cost),
     profit_percent |-> L.profit_percent,
     profit_amount |-> Round2(L.profit_amount),
     price_before_vat |-> Round2(L.price_before_vat),
     vat_percent |-> settings.vat_percent,
     vat_amount |-> Round2(L.vat_amount),
     final_price |-> Round2(L.final_price),
     rounded_price |-> Round2(L.rounded_price),
     currency |-> settings.currency,
     chair_hourly_rate |-> Round2(L.chair_hourly_rate),
     effective_hours |-> Round2(L.effective_hours),
     current_price |-> service.current_price,
     monthly_fixed_costs |-> Round2(L.total_fixed),
     monthly_salaries |-> Round2(L.total_salaries),
     monthly_depreciation |-> Round2(L.fixed_depreciation),
     total_monthly_fixed |-> Round2(L.total_monthly_fixed)]

----------------------------------------------------------------------------
(* The stored tables (modules/database.py, init_database).  A table with   *)
(* an id column is the set of its rows; a junction table is the sequence   *)
(* of its rows in AUTO_INCREMENT order, the id column itself left out (no  *)
(* code reads it).  A foreign key that is NULL is 0.                       *)

VARIABLES
    global_settings,      \* rows of global_settings, UNIQUE(clinic_id)
    clinic_capacity,      \* rows of clinic_capacity, UNIQUE(clinic_id)
    fixed_costs,
    salaries,
    equipment,
    consumables,
    lab_materials,
    services,
    service_consumables,
    service_materials,
    service_equipment,
    response,             \* what the last request handler returned
    calc,                 \* the price request in progress: its position and the rows it read
                          \* (in SpecPar one position per request)
    seen,                 \* the database states there have been since that request began
    writes,               \* the number of update requests served
    users,                \* rows of users: id and password_hash
    password_reset_tokens,\* rows of password_reset_tokens, token_hash UNIQUE
    issued,               \* the AUTO_INCREMENT counter of password_reset_tokens
    now                   \* the database clock, in hours

tables == <<global_settings, clinic_capacity, fixed_costs, salaries, equipment,
            consumables, lab_materials, services, service_consumables,
            service_materials, service_equipment>>

\* the tables and the clock of the password reset
accounts == <<users, password_reset_tokens, issued, now>>

vars == <<tables, response, calc, seen, writes, accounts>>

\* no user has been registered
NoAccounts ==
    /\ users = {}
    /\ password_reset_tokens = {}
    /\ issued = 0
    /\ now = 0

\* the database as one value
Db ==
    [global_settings |-> global_settings, clinic_capacity |-> clinic_capacity,
     fixed_costs |-> fixed_costs, salaries |-> salaries, equipment |-> equipment,
     consumables |-> consumables, lab_materials |-> lab_materials,
     services |-> services, service_consumables |-> service_consumables,
     service_materials |-> service_materials, service_equipment |-> service_equipment]

\* the clinics table: two tenants
Clinics == {1, 2}

\* the row INSERTed when a clinic has no global_settings row
DefaultSettings(clinic_id) ==
    [clinic_id |-> clinic_id, currency |-> "EGP", vat_percent |-> I(0),
     default_profit_percent |-> I(40), rounding_nearest |-> I(5)]

\* the row INSERTed when a clinic has no clinic_capacity row
DefaultCapacity(clinic_id) ==
    [clinic_id |-> clinic_id, chairs |-> I(1), days_per_month |-> I(24),
     hours_per_day |-> I(8), utilization_percent |-> I(80)]

\* SELECT * FROM <table> WHERE clinic_id = ?
OfClinic(table, clinic_id) == {r \in table : r.clinic_id = clinic_id}

\* Python None, as a row
None == [id |-> 0]

\* cursor.fetchone() of a result set: a row of it, or None
FetchOne(rows) == IF rows = {} THEN None ELSE CHOOSE r \in rows : TRUE

\* the rows of a junction table of one service, each joined (JOIN ... ON) with
\* the library row its key names; a row whose key names no library row is dropped
\* (own: the junction columns selected, columns: the library columns selected)
RECURSIVE Joined(_, _, _, _, _, _)
Joined(junction, service_id, key, library, own, columns) ==
    IF junction = <<>> THEN <<>>
    ELSE IF Head(junction).service_id = service_id
            /\ \E l \in library : l.id = Head(junction)[key]
         THEN <<[f \in own \cup columns |->
                    IF f \in own THEN Head(junction)[f]
                    ELSE FetchOne({l \in library : l.id = Head(junction)[key]})[f]]>>
              \o Joined(Tail(junction), service_id, key, library, own, columns)
         ELSE Joined(Tail(junction), service_id, key, library, own, columns)

\* get_service_by_id, its three junction reads: the service row with its joined lists
WithLists(db, service) ==
    IF service = None THEN None
    ELSE [id |-> service.id, clinic_id |-> service.clinic_id, name |-> service.name,
          chair_time_hours |-> service.chair_time_hours,
          doctor_hourly_fee |-> service.doctor_hourly_fee,
          use_default_profit |-> service.use_default_profit,
          custom_profit_percent |-> service.custom_profit_percent,
          equipment_id |-> service.equipment_id,
          equipment_hours_used |-> service.equipment_hours_used,
          current_price |-> service.current_price,
          doctor_fee_type |-> service.doctor_fee_type,
          doctor_fixed_fee |-> service.doctor_fixed_fee,
          doctor_percentage |-> service.doctor_percentage,
          consumables |->
              Joined(db.service_consumables, service.id, "consumable_id", db.consumables,
                     {"consumable_id", "quantity", "custom_unit_price"},
                     {"pack_cost", "cases_per_pack", "units_per_case"}),
          materials |->
              Joined(db.service_materials, service.id, "material_id", db.lab_materials,
                     {"material_id", "quantity", "custom_unit_price"}, {"unit_cost"}),
          equipment_list |->
              Joined(db.service_equipment, service.id, "equipment_id", db.equipment,
                     {"equipment_id", "hours_used"},
                     {"purchase_cost", "life_years", "allocation_type",
                      "monthly_usage_hours"})]

\* a variant of GetServiceById that does not filter by clinic
GetServiceByIdAnyClinic(db, service_id, clinic_id) ==
    WithLists(db, FetchOne({s \in db.services : s.id = service_id}))

\* get_service_by_id: the service row of this clinic with its three joined
\* lists, read in one transaction; None when no such row
GetServiceById(db, service_id, clinic_id) ==
    WithLists(db, FetchOne({s \in db.services : s.id = service_id /\ s.clinic_id = clinic_id}))

\* get_clinic_capacity, its write: the default row INSERTed when the clinic has none
EnsureCapacity(capacity_table, clinic_id) ==
    IF OfClinic(capacity_table, clinic_id) = {}
    THEN capacity_table \cup {DefaultCapacity(clinic_id)}
    ELSE capacity_table

\* a variant of EnsureSettings that INSERTs the default row whether or not the
\* clinic has a row
EnsureSettingsAlways(settings_table, clinic_id) ==
    settings_table \cup {DefaultSettings(clinic_id)}

\* get_global_settings, its write: the default row INSERTed when the clinic has none
EnsureSettings(settings_table, clinic_id) ==
    IF OfClinic(settings_table, clinic_id) = {}
    THEN settings_table \cup {DefaultSettings(clinic_id)}
    ELSE settings_table

\* a variant of GetClinicCapacity that answers a clinic without a row from
\* built-in values other than those of the row INSERTed
GetClinicCapacityFallback(db, clinic_id) ==
    IF OfClinic(db.clinic_capacity, clinic_id) = {}
    THEN [DefaultCapacity(clinic_id) EXCEPT !.days_per_month = I(20)]
    ELSE FetchOne(OfClinic(db.clinic_capacity, clinic_id))

\* get_clinic_capacity, its result: the clinic's row after the lazy INSERT
GetClinicCapacity(db, clinic_id) ==
    FetchOne(OfClinic(EnsureCapacity(db.clinic_capacity, clinic_id), clinic_id))

\* settings['total_overhead_per_hour'] = round(chair_hourly_rate, 2)
WithOverhead(row, total_monthly_fixed, effective_hours) ==
    [clinic_id |-> row.clinic_id, currency |-> row.currency,
     vat_percent |-> row.vat_percent,
     default_profit_percent |-> row.default_profit_percent,
     rounding_nearest |-> row.rounding_nearest,
     total_overhead_per_hour |->
         IF IsErr(total_monthly_fixed) THEN total_monthly_fixed
         ELSE Round2(ChairHourlyRate(total_monthly_fixed, effective_hours))]

\* get_global_settings, its result: the clinic's row after the lazy INSERT,
\* with total_overhead_per_hour computed from the cost pool and the capacity
GetGlobalSettings(db, clinic_id) ==
    WithOverhead(FetchOne(OfClinic(EnsureSettings(db.global_settings, clinic_id), clinic_id)),
                 TotalMonthlyFixed(TotalFixed(OfClinic(db.fixed_costs, clinic_id)),
                                   TotalSalaries(OfClinic(db.salaries, clinic_id)),
                                   FixedDepreciation(OfClinic(db.equipment, clinic_id))),
                 EffectiveHours(GetClinicCapacity(db, clinic_id)))

----------------------------------------------------------------------------
(* Request handlers.  response is what the handler answered: "ok" with the *)
(* body, "not_found" (404), or "error" (an uncaught exception, 500).  Its  *)
(* locals field keeps the unrounded local variables of the calculation,    *)
(* as far as the arithmetic got, for the properties stated about them.     *)

NoPrice == [service_name |-> ""]
NoLocals == [total_fixed |-> NULL]

Response(op, clinic_id, service_id, status, raised, price, locals, list) ==
    [op |-> op, clinic_id |-> clinic_id, service_id |-> service_id, status |-> status,
     raised |-> raised, price |-> price, locals |-> locals, list |-> list]

NoResponse == Response("none", 0, 0, "none", NULL, NoPrice, NoLocals, <<>>)

\* what calculate_service_price returns or raises, from its local variables
Outcome(service, settings, L) ==
    IF IsErr(settings.total_overhead_per_hour)
    THEN [status |-> "error", raised |-> settings.total_overhead_per_hour,
          price |-> NoPrice, locals |-> NoLocals]
    ELSE IF Raised(L) # NULL
    THEN [status |-> "error", raised |-> Raised(L), price |-> NoPrice, locals |-> L]
    ELSE [status |-> "ok", raised |-> NULL,
          price |-> PriceRecord(service, settings, L), locals |-> L]

\* calculate_service_price after its first read: None when there is no such
\* service, else the settings, capacity and cost rows read and the price computed
PriceOfService(db, service, clinic_id) ==
    IF service = None
    THEN [status |-> "not_found", raised |-> NULL, price |-> NoPrice, locals |-> NoLocals]
    ELSE Outcome(service, GetGlobalSettings(db, clinic_id),
                 Locals(service, GetGlobalSettings(db, clinic_id),
                        GetClinicCapacity(db, clinic_id),
                        OfClinic(db.fixed_costs, clinic_id),
                        OfClinic(db.salaries, clinic_id),
                        OfClinic(db.equipment, clinic_id)))

\* calculate_service_price on one database state: what it returns or raises
\* (its two lazy INSERTs are EnsureSettings and EnsureCapacity)
ServicePrice(db, service_id, clinic_id) ==
    PriceOfService(db, GetServiceById(db, service_id, clinic_id), clinic_id)

\* the handler's answer to a price request, from what the calculation returned
PriceResponse(clinic_id, service_id, r) ==
    Response("price", clinic_id, service_id, r.status, r.raised, r.price, r.locals, <<>>)

\* a variant of AfterCalculation that resets the clinic's settings row to the defaults
AfterCalculationReset(db, service_id, clinic_id) ==
    [db EXCEPT !.global_settings =
                   {r \in db.global_settings : r.clinic_id # clinic_id}
                   \cup {DefaultSettings(clinic_id)}]

\* the tables after calculate_service_price: the lazy INSERTs of its two
\* settings reads, made once the service was found
AfterCalculation(db, service_id, clinic_id) ==
    IF GetServiceById(db, service_id, clinic_id) = None THEN db
    ELSE [db EXCEPT !.global_settings = EnsureSettings(db.global_settings, clinic_id),
                    !.clinic_capacity = EnsureCapacity(db.clinic_capacity, clinic_id)]

\* GET /api/services/<id>/price with the session of clinic_id
ApiCalculateServicePrice(service_id, clinic_id) ==
    /\ response' = PriceResponse(clinic_id, service_id, ServicePrice(Db, service_id, clinic_id))
    /\ global_settings' = AfterCalculation(Db, service_id, clinic_id).global_settings
    /\ clinic_capacity' = AfterCalculation(Db, service_id, clinic_id).clinic_capacity
    /\ UNCHANGED <<fixed_costs, salaries, equipment, consumables, lab_materials,
                   services, service_consumables, service_materials,
                   service_equipment>>
    /\ UNCHANGED <<calc, seen, writes, accounts>>

\* get_all_services: the clinic's service rows as a list (the category and
\* name columns it orders by are not modelled: the rows come in id order)
GetAllServices(db, clinic_id) ==
    LET RECURSIVE Ordered(_)
        Ordered(S) == IF S = {} THEN <<>>
                      ELSE LET first == CHOOSE r \in S : \A o \in S : r.id <= o.id
                           IN  <<first>> \o Ordered(S \ {first})
    IN  Ordered(OfClinic(db.services, clinic_id))

\* a variant of Collect that passes over a service whose calculation raised
CollectPassingOver(service, r, rest) ==
    IF rest.raised # NULL THEN rest
    ELSE IF r.status # "ok" THEN rest
    ELSE [raised |-> NULL, results |-> <<[id |-> service.id] @@ r.price>> \o rest.results]

\* one turn of the loop of calculate_all_services: the record of this service
\* put before those of the services after it, an exception ending the loop
Collect(service, r, rest) ==
    IF r.status = "error" THEN [raised |-> r.raised, results |-> <<>>]
    ELSE IF rest.raised # NULL THEN rest
    ELSE IF r.status = "not_found" THEN rest
    ELSE [raised |-> NULL, results |-> <<[id |-> service.id] @@ r.price>> \o rest.results]

\* the loop: calculate_service_price for each listed service in turn, each
\* call on the tables the calls before it left
RECURSIVE CalculateEach(_, _, _)
CalculateEach(db, clinic_id, todo) ==
    IF todo = <<>> THEN [raised |-> NULL, results |-> <<>>]
    ELSE Collect(Head(todo), ServicePrice(db, Head(todo).id, clinic_id),
                 CalculateEach(AfterCalculation(db, Head(todo).id, clinic_id), clinic_id,
                               Tail(todo)))

\* calculate_all_services: the list of the price records, or the first
\* exception a call raised
CalculateAllServices(db, clinic_id) ==
    CalculateEach(db, clinic_id, GetAllServices(db, clinic_id))

\* the tables after calculate_all_services
AfterAllServices(db, clinic_id) ==
    IF OfClinic(db.services, clinic_id) = {} THEN db
    ELSE [db EXCEPT !.global_settings = EnsureSettings(db.global_settings, clinic_id),
                    !.clinic_capacity = EnsureCapacity(db.clinic_capacity, clinic_id)]

\* the handler's answer to a price-list request
ListResponse(clinic_id, r) ==
    Response("price_list", clinic_id, 0, IF r.raised # NULL THEN "error" ELSE "ok",
             r.raised, NoPrice, NoLocals, r.results)

\* GET /api/price-list with the session of clinic_id
ApiGetPriceList(clinic_id) ==
    /\ response' = ListResponse(clinic_id, CalculateAllServices(Db, clinic_id))
    /\ global_settings' = AfterAllServices(Db, clinic_id).global_settings
    /\ clinic_capacity' = AfterAllServices(Db, clinic_id).clinic_capacity
    /\ UNCHANGED <<fixed_costs, salaries, equipment, consumables, lab_materials,
                   services, service_consumables, service_materials,
                   service_equipment>>
    /\ UNCHANGED <<calc, seen, writes, accounts>>

----------------------------------------------------------------------------
(* A price request among update requests.  calculate_service_price reads   *)
(* through six data-access calls, each on a connection of its own: every   *)
(* call is a transaction, and another request's committed UPDATE can fall  *)
(* between two of them.  An update request is one transaction.             *)

\* no price request in progress
Idle == [pc |-> "idle"]

\* the UPDATE of a row from a request body: the columns the body names are set
Patch(row, data) ==
    [f \in DOMAIN row |->
        IF f \in DOMAIN data \ {"id", "clinic_id"} THEN data[f] ELSE row[f]]

\* the step of a price request in progress, or of an update served during
\* it, made the tables one more state
Noted == seen' = IF calc.pc = "idle" THEN seen ELSE seen \cup {Db'}

\* the handler's answer to a request that writes: {'success': True}, or the
\* 500 of the exception raised
WriteResponse(op, clinic_id, id, raised) ==
    Response(op, clinic_id, id, IF raised = NULL THEN "ok" ELSE "error", raised,
             NoPrice, NoLocals, <<>>)

\* service = get_service_by_id(service_id, clinic_id); None is answered 404
ReadService(service_id, clinic_id) ==
    /\ calc.pc = "idle"
    /\ IF GetServiceById(Db, service_id, clinic_id) = None
       THEN /\ response' = PriceResponse(clinic_id, service_id,
                                         PriceOfService(Db, None, clinic_id))
            /\ UNCHANGED <<calc, seen>>
       ELSE /\ calc' = [pc |-> "settings", service_id |-> service_id,
                        clinic_id |-> clinic_id,
                        service |-> GetServiceById(Db, service_id, clinic_id)]
            /\ seen' = {Db}
            /\ UNCHANGED response
    /\ UNCHANGED <<tables, writes, accounts>>

\* settings = get_global_settings(clinic_id): the row, INSERTed when absent,
\* and the overhead rate computed from reads of its own (the calculation
\* uses none of them), the capacity row INSERTed when absent; an exception
\* in it is answered 500
ReadSettings ==
    /\ calc.pc = "settings"
    /\ global_settings' = EnsureSettings(global_settings, calc.clinic_id)
    /\ clinic_capacity' = EnsureCapacity(clinic_capacity, calc.clinic_id)
    /\ IF IsErr(GetGlobalSettings(Db, calc.clinic_id).total_overhead_per_hour)
       THEN /\ response' = PriceResponse(calc.clinic_id, calc.service_id,
                               Outcome(calc.service, GetGlobalSettings(Db, calc.clinic_id),
                                       NoLocals))
            /\ calc' = Idle
       ELSE /\ calc' = [pc |-> "capacity", service_id |-> calc.service_id,
                        clinic_id |-> calc.clinic_id, service |-> calc.service,
                        settings |-> GetGlobalSettings(Db, calc.clinic_id)]
            /\ UNCHANGED response
    /\ UNCHANGED <<fixed_costs, salaries, equipment, consumables, lab_materials,
                   services, service_consumables, service_materials,
                   service_equipment, writes, accounts>>
    /\ Noted

\* capacity = get_clinic_capacity(clinic_id)
ReadCapacity ==
    /\ calc.pc = "capacity"
    /\ calc' = [pc |-> "fixed_costs", service_id |-> calc.service_id,
                clinic_id |-> calc.clinic_id, service |-> calc.service,
                settings |-> calc.settings,
                capacity |-> GetClinicCapacity(Db, calc.clinic_id)]
    /\ clinic_capacity' = EnsureCapacity(clinic_capacity, calc.clinic_id)
    /\ UNCHANGED <<global_settings, fixed_costs, salaries, equipment, consumables,
                   lab_materials, services, service_consumables, service_materials,
                   service_equipment, response, writes, accounts>>
    /\ Noted

\* fixed_costs = get_all_fixed_costs(clinic_id)
ReadFixedCosts ==
    /\ calc.pc = "fixed_costs"
    /\ calc' = [pc |-> "salaries", service_id |-> calc.service_id,
                clinic_id |-> calc.clinic_id, service |-> calc.service,
                settings |-> calc.settings, capacity |-> calc.capacity,
                fixed_costs |-> OfClinic(fixed_costs, calc.clinic_id)]
    /\ UNCHANGED <<tables, response, seen, writes, accounts>>

\* salaries = get_all_salaries(clinic_id)
ReadSalaries ==
    /\ calc.pc = "salaries"
    /\ calc' = [pc |-> "equipment", service_id |-> calc.service_id,
                clinic_id |-> calc.clinic_id, service |-> calc.service,
                settings |-> calc.settings, capacity |-> calc.capacity,
                fixed_costs |-> calc.fixed_costs,
                salaries |-> OfClinic(salaries, calc.clinic_id)]
    /\ UNCHANGED <<tables, response, seen, writes, accounts>>

\* equipment_list = get_all_equipment(clinic_id), then the arithmetic on
\* the rows read and the answer
ReadEquipment ==
    /\ calc.pc = "equipment"
    /\ response' = PriceResponse(calc.clinic_id, calc.service_id,
                       Outcome(calc.service, calc.settings,
                               Locals(calc.service, calc.settings, calc.capacity,
                                      calc.fixed_costs, calc.salaries,
                                      OfClinic(equipment, calc.clinic_id))))
    /\ calc' = Idle
    /\ UNCHANGED <<tables, seen, writes, accounts>>

\* the most update requests served in a run
MaxWrites == 2

\* PUT /api/settings/global: update_global_settings(clinic_id, **data)
ApiUpdateGlobalSettings(clinic_id, data) ==
    /\ writes < MaxWrites
    /\ writes' = writes + 1
    /\ UNCHANGED accounts
    /\ global_settings' = {IF r.clinic_id = clinic_id THEN Patch(r, data) ELSE r :
                              r \in global_settings}
    /\ UNCHANGED <<clinic_capacity, fixed_costs, salaries, equipment, consumables,
                   lab_materials, services, service_consumables, service_materials,
                   service_equipment, calc>>
    /\ response' = WriteResponse("update_settings", clinic_id, 0, NULL)
    /\ Noted

\* PUT /api/capacity: update_clinic_capacity(clinic_id, **data)
ApiUpdateCapacity(clinic_id, data) ==
    /\ writes < MaxWrites
    /\ writes' = writes + 1
    /\ UNCHANGED accounts
    /\ clinic_capacity' = {IF r.clinic_id = clinic_id THEN Patch(r, data) ELSE r :
                              r \in clinic_capacity}
    /\ UNCHANGED <<global_settings, fixed_costs, salaries, equipment, consumables,
                   lab_materials, services, service_consumables, service_materials,
                   service_equipment, calc>>
    /\ response' = WriteResponse("update_capacity", clinic_id, 0, NULL)
    /\ Noted

\* PUT /api/fixed-costs/<id>: update_fixed_cost(cost_id, clinic_id, **data)
ApiUpdateFixedCost(cost_id, clinic_id, data) ==
    /\ writes < MaxWrites
    /\ writes' = writes + 1
    /\ UNCHANGED accounts
    /\ fixed_costs' = {IF r.id = cost_id /\ r.clinic_id = clinic_id THEN Patch(r, data) ELSE r :
                          r \in fixed_costs}
    /\ UNCHANGED <<global_settings, clinic_capacity, salaries, equipment, consumables,
                   lab_materials, services, service_consumables, service_materials,
                   service_equipment, calc>>
    /\ response' = WriteResponse("update_fixed_cost", clinic_id, cost_id, NULL)
    /\ Noted

----------------------------------------------------------------------------
(* Rows, and the bounded sets the calculation's inputs are drawn from.     *)
(* The values are those of create_clinic_starter_data where it has any.    *)

FixedCost(id, clinic_id, monthly_amount, included) ==
    [id |-> id, clinic_id |-> clinic_id, monthly_amount |-> monthly_amount,
     included |-> included]

Salary(id, clinic_id, monthly_salary, included) ==
    [id |-> id, clinic_id |-> clinic_id, monthly_salary |-> monthly_salary,
     included |-> included]

Equipment(id, clinic_id, purchase_cost, life_years, allocation_type, monthly_usage_hours) ==
    [id |-> id, clinic_id |-> clinic_id, purchase_cost |-> purchase_cost,
     life_years |-> life_years, allocation_type |-> allocation_type,
     monthly_usage_hours |-> monthly_usage_hours]

Consumable(id, clinic_id, pack_cost, cases_per_pack, units_per_case) ==
    [id |-> id, clinic_id |-> clinic_id, pack_cost |-> pack_cost,
     cases_per_pack |-> cases_per_pack, units_per_case |-> units_per_case]

LabMaterial(id, clinic_id, unit_cost) ==
    [id |-> id, clinic_id |-> clinic_id, unit_cost |-> unit_cost]

\* a service as create_service stores it with its defaults: hourly fee,
\* default profit, no legacy equipment
Service(id, clinic_id, chair_time_hours, doctor_hourly_fee) ==
    [id |-> id, clinic_id |-> clinic_id, name |-> "service",
     chair_time_hours |-> chair_time_hours, doctor_hourly_fee |-> doctor_hourly_fee,
     use_default_profit |-> 1, custom_profit_percent |-> NULL,
     equipment_id |-> 0, equipment_hours_used |-> NULL, current_price |-> NULL,
     doctor_fee_type |-> "hourly", doctor_fixed_fee |-> I(0), doctor_percentage |-> I(0)]

Settings(clinic_id, vat_percent, default_profit_percent, rounding_nearest) ==
    [clinic_id |-> clinic_id, currency |-> "EGP", vat_percent |-> vat_percent,
     default_profit_percent |-> default_profit_percent,
     rounding_nearest |-> rounding_nearest]

Capacity(clinic_id, chairs, days_per_month, hours_per_day, utilization_percent) ==
    [clinic_id |-> clinic_id, chairs |-> chairs, days_per_month |-> days_per_month,
     hours_per_day |-> hours_per_day, utilization_percent |-> utilization_percent]

\* the sets of rows with at most one row per id
ById(rows) == {S \in SUBSET rows : \A r1, r2 \in S : r1.id = r2.id => r1 = r2}

\* the sequences over S of length at most n
SeqUpTo(S, n) == UNION {[1..k -> S] : k \in 0..n}

\* the most cost rows of one kind, and the most junction rows of one kind, a clinic has
MaxPoolRows == 2
MaxLines == 2

\* clinic 2's rows: every table holds rows of another tenant
OtherFixedCosts == {FixedCost(9, 2, I(5000), 1)}
OtherSalaries == {Salary(9, 2, I(6000), 1)}
OtherEquipment == {Equipment(9, 2, I(60000), I(5), "fixed", NULL)}
OtherConsumables == {Consumable(9, 2, I(850), I(1), I(50))}
OtherLabMaterials == {LabMaterial(9, 2, I(3000))}
OtherServices == {Service(9, 2, I(2), I(800))}

\* the tables of a clinic registered by create_clinic and given one service,
\* with one stock row per library table
BaseDb ==
    [global_settings |-> {DefaultSettings(1), Settings(2, I(14), I(30), I(1))},
     clinic_capacity |-> {DefaultCapacity(1), DefaultCapacity(2)},
     fixed_costs |-> {FixedCost(1, 1, I(20000), 1)} \cup OtherFixedCosts,
     salaries |-> {Salary(1, 1, I(8000), 1)} \cup OtherSalaries,
     equipment |-> {Equipment(1, 1, I(100000), I(10), "fixed", NULL),
                    Equipment(2, 1, I(80000), I(8), "per-hour", I(40))}
                   \cup OtherEquipment,
     consumables |-> {Consumable(1, 1, I(180), I(1), I(100))} \cup OtherConsumables,
     lab_materials |-> {LabMaterial(1, 1, I(3500))} \cup OtherLabMaterials,
     services |-> {Service(1, 1, Q(3, 4), I(400))} \cup OtherServices,
     service_consumables |-> <<>>,
     service_materials |-> <<>>,
     service_equipment |-> <<>>]

\* cost pool and capacity: which cost rows exist and are included, which
\* equipment is 'fixed', and the capacity settings (no chairs, no
\* utilization, the defaults, a second chair at full utilization)
PoolInputs ==
    {[BaseDb EXCEPT !.fixed_costs = fc \cup OtherFixedCosts,
                    !.salaries = sal \cup OtherSalaries,
                    !.equipment = eq \cup OtherEquipment,
                    !.clinic_capacity = {cap, DefaultCapacity(2)}] :
        fc \in ById({FixedCost(i, 1, I(2500 * (9 - i)), inc) :
                        i \in 1..MaxPoolRows, inc \in {0, 1}}),
        sal \in SUBSET {Salary(i, 1, I(8000 + 4000 * (i - 1)), i % 2) : i \in 1..MaxPoolRows},
        eq \in ById({Equipment(1, 1, I(100000), I(10), a, NULL) : a \in {"fixed", "per-hour"}}
                    \cup {Equipment(2, 1, I(35000), I(7), "fixed", NULL)}),
        cap \in {Capacity(1, I(0), I(24), I(8), I(80)), Capacity(1, I(1), I(24), I(8), I(0)),
                 DefaultCapacity(1), Capacity(1, I(2), I(24), I(8), I(100))}}

ServiceConsumable(service_id, consumable_id, quantity, custom_unit_price) ==
    [service_id |-> service_id, consumable_id |-> consumable_id, quantity |-> quantity,
     custom_unit_price |-> custom_unit_price]

ServiceMaterial(service_id, material_id, quantity, custom_unit_price) ==
    [service_id |-> service_id, material_id |-> material_id, quantity |-> quantity,
     custom_unit_price |-> custom_unit_price]

ServiceEquipment(service_id, equipment_id, hours_used) ==
    [service_id |-> service_id, equipment_id |-> equipment_id, hours_used |-> hours_used]

\* line items: the consumable and lab-material rows attached to service 1,
\* with and without a custom unit price (0 included), whole and fractional
\* quantities, beside a row attached to clinic 2's service
LineInputs ==
    {[BaseDb EXCEPT !.service_consumables = sc \o <<ServiceConsumable(9, 9, I(2), NULL)>>,
                    !.service_materials = <<ServiceMaterial(9, 9, I(1), NULL)>> \o sm] :
        sc \in SeqUpTo({ServiceConsumable(1, 1, q, p) :
                           q \in {I(4), Q(2, 5)}, p \in {NULL, I(0), Q(3, 2)}},
                       MaxLines),
        sm \in SeqUpTo({ServiceMaterial(1, 1, I(2), p) : p \in {NULL, I(0), I(3000)}}, 1)}

\* equipment: the allocation type and monthly usage hours of the clinic's
\* two items, and how service 1 refers to them: service_equipment rows,
\* the legacy equipment_id / equipment_hours_used pair, or both
EquipmentInputs ==
    {[BaseDb EXCEPT !.equipment = {e1, e2} \cup OtherEquipment,
                    !.service_equipment = <<ServiceEquipment(9, 9, I(1))>> \o se,
                    !.services = {[Service(1, 1, Q(3, 4), I(400)) EXCEPT
                                      !.equipment_id = leg[1],
                                      !.equipment_hours_used = leg[2]]}
                                 \cup OtherServices] :
        e1 \in {Equipment(1, 1, I(100000), I(10), a, m) :
                   a \in {"fixed", "per-hour"}, m \in {NULL, I(0), I(50)}},
        e2 \in {Equipment(2, 1, I(80000), I(8), a, I(40)) : a \in {"fixed", "per-hour"}},
        se \in SeqUpTo({ServiceEquipment(1, e, Q(1, 4)) : e \in {1, 2}}, MaxLines),
        leg \in {<<0, NULL>>, <<1, Q(1, 2)>>, <<2, Q(1, 2)>>, <<2, I(0)>>, <<2, NULL>>}}

\* price composition: the doctor-fee mode and its parameters, the profit
\* override, the VAT and the rounding increment, over a service with and
\* without chair time and with and without a material line
PriceInputs ==
    {[BaseDb EXCEPT !.global_settings = {Settings(1, vat, I(40), rnd),
                                         Settings(2, I(14), I(30), I(1))},
                    !.service_consumables = sc,
                    !.services = {[Service(1, 1, ct, I(400)) EXCEPT
                                      !.doctor_fee_type = ft,
                                      !.doctor_fixed_fee = I(250),
                                      !.doctor_percentage = pct,
                                      !.use_default_profit = prof[1],
                                      !.custom_profit_percent = prof[2]]}
                                 \cup OtherServices] :
        vat \in {I(0), I(14)},
        rnd \in {I(0), I(1), I(5)},
        sc \in {<<>>, <<ServiceConsumable(1, 1, I(4), NULL)>>},
        ct \in {I(0), Q(3, 4)},
        ft \in {"hourly", "fixed", "percentage"},
        pct \in {I(0), I(20), Q(25, 2), I(100), I(150)},
        prof \in {<<1, NULL>>, <<1, I(25)>>, <<0, I(25)>>}}

\* a clinic with no global_settings row, no clinic_capacity row, or neither:
\* clinic rows copied by migrate() from a database that held none for them
LazyInputs ==
    {[BaseDb EXCEPT !.global_settings = gs, !.clinic_capacity = cc,
                    !.services = {[Service(1, 1, Q(3, 4), I(400)) EXCEPT
                                      !.doctor_fee_type = ft,
                                      !.doctor_percentage = I(20)]}
                                 \cup OtherServices] :
        gs \in SUBSET {Settings(1, I(14), I(30), I(1)), Settings(2, I(14), I(30), I(1))},
        cc \in SUBSET {Capacity(1, I(2), I(20), I(6), I(75)), DefaultCapacity(2)},
        ft \in {"hourly", "percentage"}}

\* the rounding increment as update_global_settings stores it from a request
\* body: 0, a negative number, or null (the column is nullable), in each
\* doctor-fee mode, with and without VAT
RoundingInputs ==
    {[BaseDb EXCEPT !.global_settings = {Settings(1, vat, I(40), rnd),
                                         Settings(2, I(14), I(30), I(1))},
                    !.service_consumables = <<ServiceConsumable(1, 1, I(4), NULL)>>,
                    !.services = {[Service(1, 1, Q(3, 4), I(400)) EXCEPT
                                      !.doctor_fee_type = ft,
                                      !.doctor_fixed_fee = I(250),
                                      !.doctor_percentage = I(20)]}
                                 \cup OtherServices] :
        vat \in {I(0), I(14)},
        rnd \in {I(0), I(-5), NULL},
        ft \in {"hourly", "fixed", "percentage"}}

\* the profit override as create_service stores it from a request body that
\* clears use_default_profit and names no custom_profit_percent (the column
\* is nullable), in each doctor-fee mode
ProfitInputs ==
    {[BaseDb EXCEPT !.service_consumables = <<ServiceConsumable(1, 1, I(4), NULL)>>,
                    !.services = {[Service(1, 1, Q(3, 4), I(400)) EXCEPT
                                      !.doctor_fee_type = ft,
                                      !.doctor_fixed_fee = I(250),
                                      !.doctor_percentage = I(20),
                                      !.use_default_profit = 0,
                                      !.custom_profit_percent = custom]}
                                 \cup OtherServices] :
        ft \in {"hourly", "fixed", "percentage"},
        custom \in {NULL, I(0), I(60)}}

CalcInputs ==
    PoolInputs \cup LineInputs \cup EquipmentInputs \cup PriceInputs \cup LazyInputs
    \cup RoundingInputs \cup ProfitInputs

\* the service ids a request names: clinic 1's service, clinic 2's, and no service's
----------------------------------------------------------------------------
(* The requests that write.  Each data-access function is one transaction  *)
(* on a connection of its own; an exception in it leaves the transaction   *)
(* uncommitted and is answered 500.  The tables are InnoDB: a FOREIGN KEY  *)
(* without an ON DELETE clause refuses the DELETE of a referenced row and  *)
(* the INSERT of a row that references none.                               *)

\* pymysql's IntegrityError: a foreign key or unique constraint refused the statement
IntegrityError == <<3, 0>>

\* what a handler has done so far: the tables as it left them, and the
\* exception it raised, if any
Step(db, raised) == [db |-> db, raised |-> raised]

\* the tables of the next state are those of db
Stored(db) ==
    /\ global_settings' = db.global_settings
    /\ clinic_capacity' = db.clinic_capacity
    /\ fixed_costs' = db.fixed_costs
    /\ salaries' = db.salaries
    /\ equipment' = db.equipment
    /\ consumables' = db.consumables
    /\ lab_materials' = db.lab_materials
    /\ services' = db.services
    /\ service_consumables' = db.service_consumables
    /\ service_materials' = db.service_materials
    /\ service_equipment' = db.service_equipment

\* DELETE FROM <junction> WHERE <key> = ?
RECURSIVE Without(_, _, _)
Without(junction, key, id) ==
    IF junction = <<>> THEN <<>>
    ELSE IF Head(junction)[key] = id THEN Without(Tail(junction), key, id)
    ELSE <<Head(junction)>> \o Without(Tail(junction), key, id)

\* DELETE FROM <table> WHERE id = ? AND clinic_id = ?
WithoutRow(table, id, clinic_id) == {r \in table : ~(r.id = id /\ r.clinic_id = clinic_id)}

\* UPDATE <table> SET <the columns of data> WHERE id = ? AND clinic_id = ?
Updated(table, id, clinic_id, data) ==
    {IF r.id = id /\ r.clinic_id = clinic_id THEN Patch(r, data) ELSE r : r \in table}

\* the id AUTO_INCREMENT gives the next row of a table (an id freed by a
\* DELETE is given again here; no row can still refer to it)
NextId(table) == 1 + CHOOSE n \in {r.id : r \in table} \cup {0} :
                         \A r \in table : r.id <= n

\* create_equipment: INSERT INTO equipment, monthly_usage_hours None when not given
CreateEquipment(db, clinic_id, data) ==
    [db EXCEPT !.equipment =
        @ \cup {Equipment(NextId(db.equipment), clinic_id, data.purchase_cost,
                          data.life_years, data.allocation_type,
                          IF "monthly_usage_hours" \in DOMAIN data
                          THEN data.monthly_usage_hours ELSE NULL)}]

\* update_equipment
UpdateEquipment(db, equipment_id, clinic_id, data) ==
    [db EXCEPT !.equipment = Updated(@, equipment_id, clinic_id, data)]

\* a service_equipment row or a services.equipment_id references the item
EquipmentReferenced(db, equipment_id) ==
    \/ \E i \in DOMAIN db.service_equipment :
           db.service_equipment[i].equipment_id = equipment_id
    \/ \E s \in db.services : s.equipment_id = equipment_id

\* delete_equipment: the one DELETE, refused when the row it would remove is referenced
DeleteEquipment(db, equipment_id, clinic_id) ==
    IF /\ \E e \in db.equipment : e.id = equipment_id /\ e.clinic_id = clinic_id
       /\ EquipmentReferenced(db, equipment_id)
    THEN Step(db, IntegrityError)
    ELSE Step([db EXCEPT !.equipment = WithoutRow(@, equipment_id, clinic_id)], NULL)

\* a variant of DeleteConsumable that removes the library row alone
DeleteConsumableRowOnly(db, consumable_id, clinic_id) ==
    [db EXCEPT !.consumables = WithoutRow(@, consumable_id, clinic_id)]

\* delete_consumable: the junction rows that name the id, then the clinic's row
DeleteConsumable(db, consumable_id, clinic_id) ==
    [db EXCEPT !.service_consumables = Without(@, "consumable_id", consumable_id),
               !.consumables = WithoutRow(@, consumable_id, clinic_id)]

\* delete_material: the junction rows that name the id, then the clinic's row
DeleteMaterial(db, material_id, clinic_id) ==
    [db EXCEPT !.service_materials = Without(@, "material_id", material_id),
               !.lab_materials = WithoutRow(@, material_id, clinic_id)]

\* delete_service: the junction rows of the id in the three junction tables,
\* then the clinic's service row
DeleteService(db, service_id, clinic_id) ==
    [db EXCEPT !.service_consumables = Without(@, "service_id", service_id),
               !.service_materials = Without(@, "service_id", service_id),
               !.service_equipment = Without(@, "service_id", service_id),
               !.services = WithoutRow(@, service_id, clinic_id)]

\* update_service
UpdateService(db, service_id, clinic_id, data) ==
    [db EXCEPT !.services = Updated(@, service_id, clinic_id, data)]

\* the foreign keys of a junction table admit the rows: the service exists
\* and every row names a row of the library
Insertable(db, service_id, rows, key, library) ==
    \/ rows = <<>>
    \/ /\ \E s \in db.services : s.id = service_id
       /\ \A i \in DOMAIN rows : \E l \in library : l.id = rows[i][key]

\* update_service_consumables: DELETE the service's rows, INSERT the given ones
UpdateServiceConsumables(db, service_id, list) ==
    IF Insertable(db, service_id, list, "consumable_id", db.consumables)
    THEN Step([db EXCEPT !.service_consumables =
                   Without(@, "service_id", service_id)
                   \o [i \in DOMAIN list |->
                          ServiceConsumable(service_id, list[i].consumable_id,
                                            list[i].quantity, list[i].custom_unit_price)]],
              NULL)
    ELSE Step(db, IntegrityError)

\* update_service_materials
UpdateServiceMaterials(db, service_id, list) ==
    IF Insertable(db, service_id, list, "material_id", db.lab_materials)
    THEN Step([db EXCEPT !.service_materials =
                   Without(@, "service_id", service_id)
                   \o [i \in DOMAIN list |->
                          ServiceMaterial(service_id, list[i].material_id,
                                          list[i].quantity, list[i].custom_unit_price)]],
              NULL)
    ELSE Step(db, IntegrityError)

\* update_service_equipment
UpdateServiceEquipment(db, service_id, list) ==
    IF Insertable(db, service_id, list, "equipment_id", db.equipment)
    THEN Step([db EXCEPT !.service_equipment =
                   Without(@, "service_id", service_id)
                   \o [i \in DOMAIN list |->
                          ServiceEquipment(service_id, list[i].equipment_id,
                                           list[i].hours_used)]],
              NULL)
    ELSE Step(db, IntegrityError)

\* api_update_service, after update_service: the consumables the body names
WithConsumables(st, service_id, data) ==
    IF st.raised # NULL \/ "consumables" \notin DOMAIN data THEN st
    ELSE UpdateServiceConsumables(st.db, service_id, data.consumables)

\* then the materials the body names
WithMaterials(st, service_id, data) ==
    IF st.raised # NULL \/ "materials" \notin DOMAIN data THEN st
    ELSE UpdateServiceMaterials(st.db, service_id, data.materials)

\* then the equipment_list the body names
WithEquipmentList(st, service_id, data) ==
    IF st.raised # NULL \/ "equipment_list" \notin DOMAIN data THEN st
    ELSE UpdateServiceEquipment(st.db, service_id, data.equipment_list)

\* api_update_service: update_service, then the junction lists of the body,
\* each in a transaction of its own, none asked whose service it is
AfterUpdateService(db, service_id, clinic_id, data) ==
    WithEquipmentList(
        WithMaterials(
            WithConsumables(Step(UpdateService(db, service_id, clinic_id, data), NULL),
                            service_id, data),
            service_id, data),
        service_id, data)

\* a request that writes is served: the handler's transactions, its answer
Served(op, clinic_id, id, st) ==
    /\ writes < MaxWrites
    /\ writes' = writes + 1
    /\ UNCHANGED accounts
    /\ Stored(st.db)
    /\ response' = WriteResponse(op, clinic_id, id, st.raised)
    /\ UNCHANGED calc
    /\ Noted

\* POST /api/equipment: create_equipment(clinic_id, **data)
ApiCreateEquipment(clinic_id, data) ==
    Served("create_equipment", clinic_id, NextId(equipment),
           Step(CreateEquipment(Db, clinic_id, data), NULL))

\* PUT /api/equipment/<id>: update_equipment(equipment_id, clinic_id, **data)
ApiUpdateEquipment(equipment_id, clinic_id, data) ==
    Served("update_equipment", clinic_id, equipment_id,
           Step(UpdateEquipment(Db, equipment_id, clinic_id, data), NULL))

\* DELETE /api/equipment/<id>: delete_equipment(equipment_id, clinic_id)
ApiDeleteEquipment(equipment_id, clinic_id) ==
    Served("delete_equipment", clinic_id, equipment_id,
           DeleteEquipment(Db, equipment_id, clinic_id))

\* PUT /api/consumables/<id>: update_consumable(consumable_id, clinic_id, **data)
ApiUpdateConsumable(consumable_id, clinic_id, data) ==
    Served("update_consumable", clinic_id, consumable_id,
           Step([Db EXCEPT !.consumables = Updated(@, consumable_id, clinic_id, data)], NULL))

\* DELETE /api/consumables/<id>: delete_consumable(consumable_id, clinic_id)
ApiDeleteConsumable(consumable_id, clinic_id) ==
    Served("delete_consumable", clinic_id, consumable_id,
           Step(DeleteConsumable(Db, consumable_id, clinic_id), NULL))

\* DELETE /api/materials/<id>: delete_material(material_id, clinic_id)
ApiDeleteMaterial(material_id, clinic_id) ==
    Served("delete_material", clinic_id, material_id,
           Step(DeleteMaterial(Db, material_id, clinic_id), NULL))

\* DELETE /api/services/<id>: delete_service(service_id, clinic_id)
ApiDeleteService(service_id, clinic_id) ==
    Served("delete_service", clinic_id, service_id,
           Step(DeleteService(Db, service_id, clinic_id), NULL))

\* PUT /api/services/<id>: update_service(service_id, clinic_id, **data), then
\* update_service_consumables / _materials / _equipment for the lists in the body
ApiUpdateService(service_id, clinic_id, data) ==
    Served("update_service", clinic_id, service_id,
           AfterUpdateService(Db, service_id, clinic_id, data))

\* the handler's answer to a settings or capacity request: the row, or the
\* 500 of the exception raised
RowResponse(op, clinic_id, row, raised) ==
    Response(op, clinic_id, 0, IF raised = NULL THEN "ok" ELSE "error", raised,
             NoPrice, NoLocals, IF raised = NULL THEN <<row>> ELSE <<>>)

\* a request that reads settings is served: its lazy INSERTs, its answer
Got(op, clinic_id, row, raised, db) ==
    /\ Stored(db)
    /\ response' = RowResponse(op, clinic_id, row, raised)
    /\ UNCHANGED <<calc, seen, writes, accounts>>

\* GET /api/settings/global: get_global_settings(clinic_id)
ApiGetGlobalSettings(clinic_id) ==
    Got("get_settings", clinic_id, GetGlobalSettings(Db, clinic_id),
        IF IsErr(GetGlobalSettings(Db, clinic_id).total_overhead_per_hour)
        THEN GetGlobalSettings(Db, clinic_id).total_overhead_per_hour ELSE NULL,
        [Db EXCEPT !.global_settings = EnsureSettings(@, clinic_id),
                   !.clinic_capacity = EnsureCapacity(@, clinic_id)])

\* GET /api/capacity: get_clinic_capacity(clinic_id)
ApiGetCapacity(clinic_id) ==
    Got("get_capacity", clinic_id, GetClinicCapacity(Db, clinic_id), NULL,
        [Db EXCEPT !.clinic_capacity = EnsureCapacity(@, clinic_id)])

ServiceIds == {1, 9, 5}

InitTables(db) ==
    /\ global_settings = db.global_settings
    /\ clinic_capacity = db.clinic_capacity
    /\ fixed_costs = db.fixed_costs
    /\ salaries = db.salaries
    /\ equipment = db.equipment
    /\ consumables = db.consumables
    /\ lab_materials = db.lab_materials
    /\ services = db.services
    /\ service_consumables = db.service_consumables
    /\ service_materials = db.service_materials
    /\ service_equipment = db.service_equipment

\* the pricing calculation on every input drawn from the bounded sets
InitCalc ==
    /\ \E db \in CalcInputs : InitTables(db)
    /\ response = NoResponse
    /\ calc = Idle
    /\ seen = {}
    /\ writes = 0
    /\ NoAccounts

\* the clinic of the logged-in session (get_clinic_id()); clinic 2 is the other tenant
Sessions == {1}

NextCalc ==
    \/ \E service_id \in ServiceIds, clinic_id \in Sessions :
           ApiCalculateServicePrice(service_id, clinic_id)
    \/ \E clinic_id \in Sessions : ApiGetPriceList(clinic_id)

SpecCalc == InitCalc /\ [][NextCalc]_vars

\* the clinics a concurrent run starts from: clinic 1 with one consumable
\* line on its service, in each doctor-fee mode
ConcInputs ==
    {[BaseDb EXCEPT !.service_consumables = <<ServiceConsumable(1, 1, I(4), NULL)>>,
                    !.services = {[Service(1, 1, Q(3, 4), I(400)) EXCEPT
                                      !.doctor_fee_type = ft,
                                      !.doctor_percentage = I(20)]}
                                 \cup OtherServices] :
        ft \in {"hourly", "fixed", "percentage"}}

\* the bodies of the update requests
SettingsData == {[vat_percent |-> I(14)], [rounding_nearest |-> I(1)]}
CapacityData == {[chairs |-> I(2)]}
FixedCostData == {[monthly_amount |-> I(26000)], [included |-> 0]}
ServiceData == {[chair_time_hours |-> I(1)]}

InitConc ==
    /\ \E db \in ConcInputs : InitTables(db)
    /\ response = NoResponse
    /\ calc = Idle
    /\ seen = {}
    /\ writes = 0
    /\ NoAccounts

\* one price request at a time, its six reads interleaved with the update
\* requests of the same clinic
NextConc ==
    \/ \E service_id \in ServiceIds, clinic_id \in Sessions :
           ReadService(service_id, clinic_id)
    \/ ReadSettings
    \/ ReadCapacity
    \/ ReadFixedCosts
    \/ ReadSalaries
    \/ ReadEquipment
    \/ \E clinic_id \in Sessions, data \in SettingsData :
           ApiUpdateGlobalSettings(clinic_id, data)
    \/ \E clinic_id \in Sessions, data \in CapacityData :
           ApiUpdateCapacity(clinic_id, data)
    \/ \E clinic_id \in Sessions, data \in FixedCostData :
           ApiUpdateFixedCost(1, clinic_id, data)
    \/ \E clinic_id \in Sessions, data \in ServiceData :
           ApiUpdateService(1, clinic_id, data)

SpecConc == InitConc /\ [][NextConc]_vars

\* two clinics at work: each has a service with a consumable, a lab-material
\* and an equipment line; clinic 1's service also names an item through the
\* legacy equipment_id column; clinic 1 has its settings and capacity rows
\* or has neither yet
ApiInputs ==
    {[BaseDb EXCEPT !.global_settings = gs \cup {Settings(2, I(14), I(30), I(1))},
                    !.clinic_capacity = cc \cup {DefaultCapacity(2)},
                    !.services = {[Service(1, 1, Q(3, 4), I(400)) EXCEPT
                                      !.equipment_id = 1,
                                      !.equipment_hours_used = Q(1, 2)]}
                                 \cup OtherServices,
                    !.service_consumables = <<ServiceConsumable(1, 1, I(4), NULL),
                                              ServiceConsumable(9, 9, I(2), NULL)>>,
                    !.service_materials = <<ServiceMaterial(9, 9, I(1), NULL),
                                            ServiceMaterial(1, 1, I(2), NULL)>>,
                    !.service_equipment = <<ServiceEquipment(1, 2, Q(1, 4)),
                                            ServiceEquipment(9, 9, I(1))>>] :
        gs \in {{}, {Settings(1, I(0), I(40), I(5))}},
        cc \in {{}, {Capacity(1, I(2), I(24), I(8), I(100))}}}

\* the bodies and ids of the requests
EquipmentBodies ==
    {[purchase_cost |-> I(12000), life_years |-> y, allocation_type |-> "fixed"] :
        y \in {I(0), I(5)}}
EquipmentUpdates == {[life_years |-> I(0)]}
ConsumableUpdates == {[pack_cost |-> I(1700)]}
ServiceBodies ==
    {[consumables |-> <<>>],
     [consumables |-> <<[consumable_id |-> 9, quantity |-> I(2), custom_unit_price |-> NULL]>>],
     [chair_time_hours |-> I(1), equipment_list |-> <<>>]}
CapacityBodies == {[utilization_percent |-> u] : u \in {I(150), I(-10)}}
SettingsBodies == {[default_profit_percent |-> I(50)]}
LibraryIds == {1, 9}
EquipmentIds == {2, 3}

InitApi ==
    /\ \E db \in ApiInputs : InitTables(db)
    /\ response = NoResponse
    /\ calc = Idle
    /\ seen = {}
    /\ writes = 0
    /\ NoAccounts

\* the requests of clinic 1's session, on its own ids and on clinic 2's, one
\* after the other, and clinic 2 repricing its consumable
NextApi ==
    \/ \E service_id \in ServiceIds, clinic_id \in Sessions :
           ApiCalculateServicePrice(service_id, clinic_id)
    \/ \E clinic_id \in Sessions : ApiGetGlobalSettings(clinic_id)
    \/ \E clinic_id \in Sessions : ApiGetCapacity(clinic_id)
    \/ \E clinic_id \in Sessions, data \in SettingsBodies :
           ApiUpdateGlobalSettings(clinic_id, data)
    \/ \E clinic_id \in Sessions, data \in CapacityBodies :
           ApiUpdateCapacity(clinic_id, data)
    \/ \E clinic_id \in Sessions, data \in EquipmentBodies :
           ApiCreateEquipment(clinic_id, data)
    \/ \E clinic_id \in Sessions, data \in EquipmentUpdates :
           ApiUpdateEquipment(2, clinic_id, data)
    \/ \E equipment_id \in EquipmentIds, clinic_id \in Sessions :
           ApiDeleteEquipment(equipment_id, clinic_id)
    \/ \E clinic_id \in Clinics \ Sessions, data \in ConsumableUpdates :
           ApiUpdateConsumable(9, clinic_id, data)
    \/ \E consumable_id \in LibraryIds, clinic_id \in Sessions :
           ApiDeleteConsumable(consumable_id, clinic_id)
    \/ \E material_id \in LibraryIds, clinic_id \in Sessions :
           ApiDeleteMaterial(material_id, clinic_id)
    \/ \E service_id \in LibraryIds, clinic_id \in Sessions :
           ApiDeleteService(service_id, clinic_id)
    \/ \E service_id \in LibraryIds, clinic_id \in Sessions, data \in ServiceBodies :
           ApiUpdateService(service_id, clinic_id, data)

SpecApi == InitApi /\ [][NextApi]_vars

----------------------------------------------------------------------------
(* Price requests side by side.  Each request runs calculate_service_price *)
(* in a worker of its own; every SELECT and every INSERT ... commit of its *)
(* two lazy reads is a transaction of its own, so the statements of the    *)
(* requests interleave.  No request here writes any other row, so the      *)
(* reads after the two lazy ones find what a single read would.            *)
(* In this specification calc holds one position per request.              *)

Requests == {1, 2}

\* a request not yet made
Waiting == [pc |-> "idle", service_id |-> 0, clinic_id |-> 0, answer |-> NoResponse]

\* request r moves on to pc, leaving the tables as they are
Moves(r, pc) ==
    /\ calc' = [calc EXCEPT ![r] = [@ EXCEPT !.pc = pc]]
    /\ UNCHANGED <<tables, response, seen, writes, accounts>>

\* request r is answered
Answers(r, answer) ==
    /\ calc' = [calc EXCEPT ![r] = [@ EXCEPT !.pc = "done", !.answer = answer]]
    /\ response' = answer
    /\ UNCHANGED <<tables, seen, writes, accounts>>

\* the uncaught exception of a request: the 500 of the handler
Raises(r, raised) ==
    Answers(r, PriceResponse(calc[r].clinic_id, calc[r].service_id,
                             [status |-> "error", raised |-> raised,
                              price |-> NoPrice, locals |-> NoLocals]))

\* GET /api/services/<id>/price arrives: get_service_by_id, the 404 when the
\* clinic has no such service
StartCalculation(r, service_id, clinic_id) ==
    /\ calc[r].pc = "idle"
    /\ IF GetServiceById(Db, service_id, clinic_id) = None
       THEN /\ calc' = [calc EXCEPT ![r] =
                           [pc |-> "done", service_id |-> service_id,
                            clinic_id |-> clinic_id,
                            answer |-> PriceResponse(clinic_id, service_id,
                                           ServicePrice(Db, service_id, clinic_id))]]
            /\ response' = PriceResponse(clinic_id, service_id,
                                         ServicePrice(Db, service_id, clinic_id))
       ELSE /\ calc' = [calc EXCEPT ![r] =
                           [pc |-> "select_settings", service_id |-> service_id,
                            clinic_id |-> clinic_id, answer |-> NoResponse]]
            /\ UNCHANGED response
    /\ UNCHANGED <<tables, seen, writes, accounts>>

\* get_global_settings: SELECT * FROM global_settings WHERE clinic_id = ?
SelectGlobalSettings(r) ==
    /\ calc[r].pc = "select_settings"
    /\ Moves(r, IF OfClinic(global_settings, calc[r].clinic_id) = {}
                THEN "insert_settings" ELSE "select_capacity")

\* get_global_settings, if not row: the INSERT of the defaults and its commit,
\* refused by UNIQUE (clinic_id) when the clinic has a row by now; then the
\* function calls itself
InsertGlobalSettings(r) ==
    /\ calc[r].pc = "insert_settings"
    /\ IF OfClinic(global_settings, calc[r].clinic_id) # {}
       THEN Raises(r, IntegrityError)
       ELSE /\ global_settings' = global_settings \cup {DefaultSettings(calc[r].clinic_id)}
            /\ calc' = [calc EXCEPT ![r] = [@ EXCEPT !.pc = "select_settings"]]
            /\ UNCHANGED <<clinic_capacity, fixed_costs, salaries, equipment,
                           consumables, lab_materials, services, service_consumables,
                           service_materials, service_equipment>>
            /\ UNCHANGED <<response, seen, writes, accounts>>

\* get_clinic_capacity, called by get_global_settings:
\* SELECT * FROM clinic_capacity WHERE clinic_id = ?
SelectClinicCapacity(r) ==
    /\ calc[r].pc = "select_capacity"
    /\ Moves(r, IF OfClinic(clinic_capacity, calc[r].clinic_id) = {}
                THEN "insert_capacity" ELSE "calculate")

\* get_clinic_capacity, if not row: the INSERT of the defaults and its commit,
\* refused by UNIQUE (clinic_id) when the clinic has a row by now
InsertClinicCapacity(r) ==
    /\ calc[r].pc = "insert_capacity"
    /\ IF OfClinic(clinic_capacity, calc[r].clinic_id) # {}
       THEN Raises(r, IntegrityError)
       ELSE /\ clinic_capacity' = clinic_capacity \cup {DefaultCapacity(calc[r].clinic_id)}
            /\ calc' = [calc EXCEPT ![r] = [@ EXCEPT !.pc = "select_capacity"]]
            /\ UNCHANGED <<global_settings, fixed_costs, salaries, equipment,
                           consumables, lab_materials, services, service_consumables,
                           service_materials, service_equipment>>
            /\ UNCHANGED <<response, seen, writes, accounts>>

\* the rest of calculate_service_price: the reads that find the two rows and
\* the clinic's cost rows, the arithmetic, the answer
FinishCalculation(r) ==
    /\ calc[r].pc = "calculate"
    /\ Answers(r, PriceResponse(calc[r].clinic_id, calc[r].service_id,
                                ServicePrice(Db, calc[r].service_id, calc[r].clinic_id)))

InitPar ==
    /\ \E db \in ApiInputs : InitTables(db)
    /\ response = NoResponse
    /\ calc = [r \in Requests |-> Waiting]
    /\ seen = {}
    /\ writes = 0
    /\ NoAccounts

\* the sessions of both clinics, each request at its next statement
NextPar ==
    \/ \E r \in Requests, service_id \in ServiceIds, clinic_id \in Clinics :
           StartCalculation(r, service_id, clinic_id)
    \/ \E r \in Requests : SelectGlobalSettings(r)
    \/ \E r \in Requests : InsertGlobalSettings(r)
    \/ \E r \in Requests : SelectClinicCapacity(r)
    \/ \E r \in Requests : InsertClinicCapacity(r)
    \/ \E r \in Requests : FinishCalculation(r)

SpecPar == InitPar /\ [][NextPar]_vars

----------------------------------------------------------------------------
(* A price-list request among delete requests.  calculate_all_services     *)
(* lists the clinic's services in one transaction and then calls           *)
(* calculate_service_price for each listed service in turn; another        *)
(* request's delete_service can fall between the listing and any call.     *)
(* In this specification calc holds the listing, the services still to be  *)
(* priced and the records appended so far.                                 *)

\* no price-list request made yet
NotListed == [pc |-> "idle", clinic_id |-> 0, listed |-> <<>>, todo |-> <<>>,
              results |-> <<>>]

\* services = get_all_services(clinic_id); results = []
StartPriceList(clinic_id) ==
    /\ calc.pc = "idle"
    /\ calc' = [pc |-> "loop", clinic_id |-> clinic_id,
                listed |-> GetAllServices(Db, clinic_id),
                todo |-> GetAllServices(Db, clinic_id), results |-> <<>>]
    /\ UNCHANGED <<tables, response, seen, writes, accounts>>

\* one turn of the loop: price_data = calculate_service_price(service['id'],
\* clinic_id), appended if price_data; an exception of the call ends the
\* request with a 500
CalculateListed ==
    /\ calc.pc = "loop"
    /\ calc.todo # <<>>
    /\ global_settings' =
           AfterCalculation(Db, Head(calc.todo).id, calc.clinic_id).global_settings
    /\ clinic_capacity' =
           AfterCalculation(Db, Head(calc.todo).id, calc.clinic_id).clinic_capacity
    /\ UNCHANGED <<fixed_costs, salaries, equipment, consumables, lab_materials,
                   services, service_consumables, service_materials,
                   service_equipment>>
    /\ IF ServicePrice(Db, Head(calc.todo).id, calc.clinic_id).status = "error"
       THEN /\ calc' = [calc EXCEPT !.pc = "done"]
            /\ response' =
                   ListResponse(calc.clinic_id,
                       Collect(Head(calc.todo),
                               ServicePrice(Db, Head(calc.todo).id, calc.clinic_id),
                               [raised |-> NULL, results |-> <<>>]))
       ELSE /\ calc' = [calc EXCEPT
                           !.todo = Tail(@),
                           !.results =
                               @ \o Collect(Head(calc.todo),
                                            ServicePrice(Db, Head(calc.todo).id,
                                                         calc.clinic_id),
                                            [raised |-> NULL, results |-> <<>>]).results]
            /\ UNCHANGED response
    /\ UNCHANGED <<seen, writes, accounts>>

\* return results, answered by api_get_price_list
ReturnPriceList ==
    /\ calc.pc = "loop"
    /\ calc.todo = <<>>
    /\ calc' = [calc EXCEPT !.pc = "done"]
    /\ response' = ListResponse(calc.clinic_id, [raised |-> NULL, results |-> calc.results])
    /\ UNCHANGED <<tables, seen, writes, accounts>>

\* a clinic with two services, the second in each doctor-fee mode and with a
\* doctor_percentage of 100, with and without its settings and capacity rows
BatchInputs ==
    {[BaseDb EXCEPT !.global_settings = gs \cup {Settings(2, I(14), I(30), I(1))},
                    !.clinic_capacity = cc \cup {DefaultCapacity(2)},
                    !.services = {Service(1, 1, Q(3, 4), I(400)),
                                  [Service(3, 1, I(1), I(300)) EXCEPT
                                      !.doctor_fee_type = ft,
                                      !.doctor_fixed_fee = I(250),
                                      !.doctor_percentage = pct]}
                                 \cup OtherServices,
                    !.service_consumables = <<ServiceConsumable(1, 1, I(4), NULL),
                                              ServiceConsumable(3, 1, I(2), NULL),
                                              ServiceConsumable(9, 9, I(2), NULL)>>,
                    !.service_materials = <<ServiceMaterial(3, 1, I(1), NULL)>>] :
        gs \in {{}, {DefaultSettings(1)}},
        cc \in {{}, {Capacity(1, I(2), I(24), I(8), I(100))}},
        ft \in {"hourly", "fixed", "percentage"},
        pct \in {I(20), I(100)}}

\* the ids the delete requests name
ListedIds == {1, 3}

InitBatch ==
    /\ \E db \in BatchInputs : InitTables(db)
    /\ response = NoResponse
    /\ calc = NotListed
    /\ seen = {}
    /\ writes = 0
    /\ NoAccounts

\* the price-list request of clinic 1's session, statement by statement, and
\* the delete requests of another worker of the same session
NextBatch ==
    \/ \E clinic_id \in Sessions : StartPriceList(clinic_id)
    \/ CalculateListed
    \/ ReturnPriceList
    \/ \E service_id \in ListedIds, clinic_id \in Sessions :
           ApiDeleteService(service_id, clinic_id)

SpecBatch == InitBatch /\ [][NextBatch]_vars

----------------------------------------------------------------------------
(* The three places that compute the overhead rate: get_global_settings,   *)
(* calculate_service_price and the dashboard statistics, each from reads   *)
(* of its own, asked one after the other of a clinic with two services.    *)

\* a variant of DashboardRate that divides by the theoretical hours
DashboardRateTheoretical(total_monthly_fixed, capacity) ==
    ChairHourlyRate(total_monthly_fixed,
                    QMul(QMul(capacity.chairs, capacity.days_per_month),
                         capacity.hours_per_day))

\* api_dashboard_stats: chair_hourly_rate = total_monthly_fixed /
\* effective_hours if effective_hours > 0 else 0
DashboardRate(total_monthly_fixed, capacity) ==
    ChairHourlyRate(total_monthly_fixed, EffectiveHours(capacity))

\* api_dashboard_stats: the statistics, from the clinic's cost rows and its
\* capacity row
DashboardStats(db, clinic_id) ==
    [total_services |-> Len(GetAllServices(db, clinic_id)),
     total_fixed_monthly |->
         Round2(TotalMonthlyFixed(TotalFixed(OfClinic(db.fixed_costs, clinic_id)),
                                  TotalSalaries(OfClinic(db.salaries, clinic_id)),
                                  FixedDepreciation(OfClinic(db.equipment, clinic_id)))),
     chair_hourly_rate |->
         Round2(DashboardRate(
                    TotalMonthlyFixed(TotalFixed(OfClinic(db.fixed_costs, clinic_id)),
                                      TotalSalaries(OfClinic(db.salaries, clinic_id)),
                                      FixedDepreciation(OfClinic(db.equipment, clinic_id))),
                    GetClinicCapacity(db, clinic_id))),
     effective_hours |-> Round2(EffectiveHours(GetClinicCapacity(db, clinic_id))),
     fixed_costs |-> Round2(TotalFixed(OfClinic(db.fixed_costs, clinic_id))),
     staff_salaries |-> Round2(TotalSalaries(OfClinic(db.salaries, clinic_id))),
     equipment_depreciation |-> Round2(FixedDepreciation(OfClinic(db.equipment, clinic_id)))]

\* GET /api/dashboard/stats with the session of clinic_id
ApiDashboardStats(clinic_id) ==
    Got("dashboard", clinic_id, DashboardStats(Db, clinic_id),
        IF IsErr(DashboardStats(Db, clinic_id).total_fixed_monthly)
        THEN DashboardStats(Db, clinic_id).total_fixed_monthly ELSE NULL,
        [Db EXCEPT !.clinic_capacity = EnsureCapacity(@, clinic_id)])

\* the cost pools and capacities of PoolInputs and the clinics without rows
\* of LazyInputs, clinic 1 given a second service
RateInputs ==
    {[db EXCEPT !.services = @ \cup {[Service(3, 1, I(1), I(300)) EXCEPT
                                         !.doctor_fee_type = "fixed",
                                         !.doctor_fixed_fee = I(250)]}] :
        db \in PoolInputs \cup LazyInputs}

InitRate ==
    /\ \E db \in RateInputs : InitTables(db)
    /\ response = NoResponse
    /\ calc = Idle
    /\ seen = {}
    /\ writes = 0
    /\ NoAccounts

NextRate ==
    \/ \E service_id \in ListedIds, clinic_id \in Sessions :
           ApiCalculateServicePrice(service_id, clinic_id)
    \/ \E clinic_id \in Sessions : ApiGetPriceList(clinic_id)
    \/ \E clinic_id \in Sessions : ApiGetGlobalSettings(clinic_id)
    \/ \E clinic_id \in Sessions : ApiDashboardStats(clinic_id)

SpecRate == InitRate /\ [][NextRate]_vars

----------------------------------------------------------------------------
(* The password reset: tokens are issued by create_password_reset_token    *)
(* and spent by reset_password_with_token, which SELECTs the token row and *)
(* then UPDATEs it and the user's password on a connection of its own.     *)
(* Two reset requests run stepwise among token requests and the clock.     *)

Users == {1, 2}
Resets == {1, 2}
MaxTokens == 3
MaxHours == 2

\* new passwords a request may carry; "abc" is shorter than 5 characters
Passwords == {"first", "second", "abc"}

\* _hash_token: sha256 of the token
HashToken(token) == <<"sha256", token>>

\* hash_password: PBKDF2 of the password
HashPassword(password) == <<"pbkdf2", password>>

\* the SELECT of reset_password_with_token: WHERE token_hash = ? AND
\* used = 0 AND expires_at > now
ValidTokenRows(token) ==
    {t \in password_reset_tokens :
        t.token_hash = HashToken(token) /\ t.used = 0 /\ t.expires_at > now}

\* UPDATE password_reset_tokens SET used = 1 WHERE id = ?
MarkUsed(rows, id) ==
    {IF t.id = id THEN [t EXCEPT !.used = 1] ELSE t : t \in rows}

NotAsked ==
    [pc |-> "idle", token |-> 0, new_password |-> "", token_row |-> 0, user_id |-> 0,
     result |-> "none"]

\* the request returns
Returns(r, token, new_password, result) ==
    /\ calc' = [calc EXCEPT ![r] = [NotAsked EXCEPT !.pc = "done", !.token = token,
                                                    !.new_password = new_password,
                                                    !.result = result]]
    /\ response' = [NoResponse EXCEPT !.op = "reset_password", !.status = "error"]
    /\ UNCHANGED <<tables, seen, writes, accounts>>

\* create_password_reset_token, from POST /api/forgot-password: the user's
\* rows are DELETEd and a row with a fresh token is INSERTed, expiring in an
\* hour
CreatePasswordResetToken(user_id) ==
    /\ issued < MaxTokens
    /\ password_reset_tokens' =
           {t \in password_reset_tokens : t.user_id # user_id} \cup
               {[id |-> issued + 1, user_id |-> user_id,
                 token_hash |-> HashToken(issued + 1),
                 expires_at |-> now + 1, used |-> 0]}
    /\ issued' = issued + 1
    /\ response' = [NoResponse EXCEPT !.op = "forgot_password", !.status = "ok"]
    /\ UNCHANGED <<tables, calc, seen, writes, users, now>>

\* POST /api/reset-password up to the SELECT of reset_password_with_token
ApiResetPassword(r, token, new_password) ==
    /\ calc[r].pc = "idle"
    /\ IF token = 0
       THEN Returns(r, token, new_password, "Reset token is required")
       ELSE IF new_password = ""
       THEN Returns(r, token, new_password, "New password is required")
       ELSE IF Len(new_password) < 5
       THEN Returns(r, token, new_password, "Password must be at least 5 characters")
       ELSE IF ValidTokenRows(token) = {}
       THEN Returns(r, token, new_password, "Invalid or expired reset token")
       ELSE /\ calc' = [calc EXCEPT ![r] =
                           [pc |-> "selected", token |-> token,
                            new_password |-> new_password,
                            token_row |-> (CHOOSE t \in ValidTokenRows(token) : TRUE).id,
                            user_id |-> (CHOOSE t \in ValidTokenRows(token) : TRUE).user_id,
                            result |-> "none"]]
            /\ UNCHANGED <<tables, response, seen, writes, accounts>>

\* reset_password_with_token from its first UPDATE to the commit, and the
\* answer of the handler
ResetPasswordWithToken(r) ==
    /\ calc[r].pc = "selected"
    /\ password_reset_tokens' = MarkUsed(password_reset_tokens, calc[r].token_row)
    /\ users' = {IF u.id = calc[r].user_id
                 THEN [u EXCEPT !.password_hash = HashPassword(calc[r].new_password)]
                 ELSE u : u \in users}
    /\ calc' = [calc EXCEPT ![r].pc = "done", ![r].result = "success"]
    /\ response' = [NoResponse EXCEPT !.op = "reset_password", !.status = "ok"]
    /\ UNCHANGED <<tables, seen, writes, issued, now>>

\* an hour passes
Hour ==
    /\ now < MaxHours
    /\ now' = now + 1
    /\ UNCHANGED <<tables, response, calc, seen, writes, users, password_reset_tokens,
                   issued>>

InitReset ==
    /\ InitTables(BaseDb)
    /\ response = NoResponse
    /\ calc = [r \in Resets |-> NotAsked]
    /\ seen = {}
    /\ writes = 0
    /\ users = {[id |-> u, password_hash |-> HashPassword("initial")] : u \in Users}
    /\ password_reset_tokens = {}
    /\ issued = 0
    /\ now = 0

NextReset ==
    \/ \E user_id \in Users : CreatePasswordResetToken(user_id)
    \/ \E r \in Resets, token \in 0..issued, new_password \in Passwords \cup {""} :
           ApiResetPassword(r, token, new_password)
    \/ \E r \in Resets : ResetPasswordWithToken(r)
    \/ Hour

SpecReset == InitReset /\ [][NextReset]_vars

----------------------------------------------------------------------------
(* Properties of the pricing calculation.  They read the last answer       *)
(* (response) against the stored rows; the tables a calculation leaves     *)
(* hold every row it read.                                                 *)

\* the service row the last price request named, None when its clinic has none
Asked ==
    FetchOne({s \in services : s.id = response.service_id
                               /\ s.clinic_id = response.clinic_id})

\* the settings and capacity rows of the clinic of the last request
SettingsRow == FetchOne(OfClinic(global_settings, response.clinic_id))
CapacityRow == FetchOne(OfClinic(clinic_capacity, response.clinic_id))

\* the last request was a price request that returned a record
Priced == response.op = "price" /\ response.status = "ok"

\* the last request was a price request whose calculation reached its arithmetic
Calculated == response.op = "price" /\ response.locals # NoLocals

\* the doctor_percentage of the service asked for, as a fraction
AskedFraction == QDiv(Asked.doctor_percentage, I(100))

\* a returned record of a percentage-mode service with 0 <= doctor_percentage < 100
PercentagePriced ==
    /\ Priced
    /\ Asked.doctor_fee_type = "percentage"
    /\ QLe(I(0), Asked.doctor_percentage)
    /\ QLt(Asked.doctor_percentage, I(100))

\* C1, as claimed: in percentage mode with 0 <= doctor_percentage < 100, for
\* every rounding increment, the doctor_fee of the returned record equals the
\* rounded_price of the same record times doctor_percentage/100, exactly
C1_FeeExact ==
    PercentagePriced =>
        response.price.doctor_fee = QMul(response.price.rounded_price, AskedFraction)

\* C1, amended: the identity is exact on the unrounded values; the record
\* holds both rounded to 2 decimals, so its doctor_fee is within 0.01 of its
\* rounded_price times doctor_percentage/100, and equal to it when the
\* rounding increment is a positive whole number and doctor_percentage is whole
C1_FeeWithinCent ==
    PercentagePriced =>
        /\ response.locals.doctor_fee = QMul(response.locals.rounded_price, AskedFraction)
        /\ response.price.doctor_fee = Round2(response.locals.doctor_fee)
        /\ response.price.rounded_price = Round2(response.locals.rounded_price)
        /\ QLe(QAbs(QSub(response.price.doctor_fee,
                         QMul(response.price.rounded_price, AskedFraction))),
               Q(1, 100))
        /\ (/\ QLt(I(0), SettingsRow.rounding_nearest)
            /\ SettingsRow.rounding_nearest[2] = 1
            /\ Asked.doctor_percentage[2] = 1)
           => response.price.doctor_fee = QMul(response.price.rounded_price, AskedFraction)

\* C1: a percentage-mode record with a fractional percentage, a rounding
\* increment and a positive fee
C1_Witness ==
    /\ PercentagePriced
    /\ Asked.doctor_percentage = Q(25, 2)
    /\ SettingsRow.rounding_nearest = I(5)
    /\ QLt(I(0), response.price.doctor_fee)

\* C2: a price request for a percentage-mode service whose doctor_percentage
\* is 100 or more is answered with an error, never with a price record
C2_Rejected ==
    (/\ response.op = "price"
     /\ Asked # None
     /\ Asked.doctor_fee_type = "percentage"
     /\ QLe(I(100), Asked.doctor_percentage))
    => response.status = "error"

\* C2: a record returned for a percentage-mode service with a
\* doctor_percentage above 100: a negative price and a negative fee
C2_NegativePrice ==
    /\ Priced
    /\ Asked.doctor_fee_type = "percentage"
    /\ QLt(I(100), Asked.doctor_percentage)
    /\ QLt(response.price.rounded_price, I(0))
    /\ QLt(response.price.doctor_fee, I(0))

\* chairs * days_per_month * hours_per_day * utilization_percent / 100
HoursOf(capacity) ==
    QDiv(QMul(QMul(QMul(capacity.chairs, capacity.days_per_month), capacity.hours_per_day),
              capacity.utilization_percent),
         I(100))

\* C3: the chair hourly rate of a calculation is total_monthly_fixed /
\* effective_hours when effective_hours > 0 and 0 when effective_hours is 0,
\* effective_hours being chairs * days_per_month * hours_per_day *
\* utilization_percent / 100; the rate is a number whatever the capacity row
C3_OverheadRate ==
    (response.op = "price" /\ Asked # None) =>
        /\ Calculated
        /\ IsNum(response.locals.chair_hourly_rate)
        /\ response.locals.effective_hours = HoursOf(CapacityRow)
        /\ QLt(I(0), HoursOf(CapacityRow)) =>
               response.locals.chair_hourly_rate =
                   QDiv(response.locals.total_monthly_fixed, HoursOf(CapacityRow))
        /\ HoursOf(CapacityRow) = I(0) => response.locals.chair_hourly_rate = I(0)
        /\ Priced => response.price.chair_hourly_rate
                         = Round2(response.locals.chair_hourly_rate)

\* C3: a calculation for a clinic with a cost pool and no effective hours
C3_Witness ==
    /\ Priced
    /\ HoursOf(CapacityRow) = I(0)
    /\ QLt(I(0), response.locals.total_monthly_fixed)
    /\ response.price.chair_hourly_rate = I(0)

\* C4: total_monthly_fixed is the sum of monthly_amount over the clinic's
\* included fixed costs, plus the sum of monthly_salary over its included
\* salaries, plus the sum of purchase_cost / (life_years * 12) over its
\* equipment of allocation type 'fixed'
C4_MonthlyFixed ==
    Calculated =>
        /\ response.locals.total_monthly_fixed =
               QAdd(SumSet([c \in {x \in OfClinic(fixed_costs, response.clinic_id) : x.included = 1}
                               |-> c.monthly_amount]),
                    QAdd(SumSet([e \in {x \in OfClinic(equipment, response.clinic_id) :
                                           x.allocation_type = "fixed"}
                                    |-> QDiv(e.purchase_cost, QMul(I(12), e.life_years))]),
                         SumSet([p \in {x \in OfClinic(salaries, response.clinic_id) :
                                           x.included = 1}
                                    |-> p.monthly_salary])))
        /\ Priced => response.price.total_monthly_fixed
                         = Round2(response.locals.total_monthly_fixed)

\* C4: a calculation for a clinic holding an included and an excluded fixed
\* cost, an excluded salary and a per-hour equipment item
C4_Witness ==
    /\ Priced
    /\ \E c \in OfClinic(fixed_costs, response.clinic_id) : c.included = 0
    /\ \E c \in OfClinic(fixed_costs, response.clinic_id) : c.included = 1
    /\ \E p \in OfClinic(salaries, response.clinic_id) : p.included = 0
    /\ \E e \in OfClinic(equipment, response.clinic_id) : e.allocation_type = "per-hour"

\* the junction rows (by position) of the service asked for
LinesOf(junction) == {i \in DOMAIN junction : junction[i].service_id = response.service_id}

\* the cost of consumable line i: the custom unit price when the row has
\* one, else pack_cost / cases_per_pack / units_per_case, times the quantity
ConsumableLine(i) ==
    LET line == service_consumables[i]
        c == FetchOne({x \in consumables : x.id = line.consumable_id})
    IN  IF line.custom_unit_price # NULL
        THEN QMul(line.quantity, line.custom_unit_price)
        ELSE QMul(line.quantity, QDiv(c.pack_cost, QMul(c.cases_per_pack, c.units_per_case)))

\* the cost of lab-material line i
MaterialLine(i) ==
    LET line == service_materials[i]
        m == FetchOne({x \in lab_materials : x.id = line.material_id})
    IN  IF line.custom_unit_price # NULL
        THEN QMul(line.quantity, line.custom_unit_price)
        ELSE QMul(line.quantity, m.unit_cost)

\* C5: consumables_cost and lab_materials_cost are the sums of the line
\* costs, a line costing its quantity times the custom unit price when one
\* is present (0 included) and else times the default unit cost, and
\* materials_cost is their sum
C5_Materials ==
    Calculated =>
        /\ response.locals.consumables_cost = SumSet([i \in LinesOf(service_consumables) |-> ConsumableLine(i)])
        /\ response.locals.lab_materials_cost = SumSet([i \in LinesOf(service_materials) |-> MaterialLine(i)])
        /\ response.locals.materials_cost =
               QAdd(response.locals.consumables_cost, response.locals.lab_materials_cost)
        /\ Priced =>
               /\ response.price.consumables_cost = Round2(response.locals.consumables_cost)
               /\ response.price.lab_materials_cost
                      = Round2(response.locals.lab_materials_cost)
               /\ response.price.materials_cost = Round2(response.locals.materials_cost)

\* C5: a calculation over a consumable line with a custom price of 0, one
\* without a custom price, and a lab-material line with a custom price
C5_Witness ==
    /\ Priced
    /\ \E i \in LinesOf(service_consumables) : service_consumables[i].custom_unit_price = I(0)
    /\ \E i \in LinesOf(service_consumables) : service_consumables[i].custom_unit_price = NULL
    /\ \E i \in LinesOf(service_materials) : service_materials[i].custom_unit_price = I(3000)
    /\ QLt(I(0), response.locals.consumables_cost)

\* the equipment rows of the clinic of the last request
ClinicEquipment == OfClinic(equipment, response.clinic_id)

\* C6: an equipment item of allocation type 'fixed' adds nothing to
\* equipment_cost, through service_equipment rows or through the legacy
\* equipment_id (the cost is what it is without the clinic's fixed items),
\* and a 'per-hour' item adds nothing to the fixed pool (the depreciation
\* total is what it is without the clinic's per-hour items)
C6_NoDoubleCount ==
    Calculated =>
        /\ response.locals.equipment_cost =
               EquipmentCost(GetServiceById(Db, response.service_id, response.clinic_id),
                             {e \in ClinicEquipment : e.allocation_type # "fixed"})
        /\ response.locals.fixed_depreciation =
               SumSet([e \in {x \in ClinicEquipment : x.allocation_type # "per-hour"} |->
                          QDiv(e.purchase_cost, QMul(I(12), e.life_years))])
        /\ (\A i \in LinesOf(service_equipment) :
               \A e \in ClinicEquipment :
                   e.id = service_equipment[i].equipment_id => e.allocation_type = "fixed")
           /\ (\A e \in ClinicEquipment :
                   e.id = Asked.equipment_id => e.allocation_type = "fixed")
           => response.locals.equipment_cost = I(0)

\* C6: a calculation for a service whose service_equipment rows name a
\* fixed item and a per-hour item, the latter charged
C6_Witness ==
    /\ Priced
    /\ \E i \in LinesOf(service_equipment) : \E e \in ClinicEquipment :
           e.id = service_equipment[i].equipment_id /\ e.allocation_type = "fixed"
           /\ Truthy(e.monthly_usage_hours)
    /\ \E i \in LinesOf(service_equipment) : \E e \in ClinicEquipment :
           e.id = service_equipment[i].equipment_id /\ e.allocation_type = "per-hour"
    /\ QLt(I(0), response.locals.equipment_cost)
    /\ QLt(I(0), response.locals.fixed_depreciation)

\* the next answer is to a price request for a service its clinic does not hold
NoSuchService ==
    /\ response'.op = "price"
    /\ {s \in services : s.id = response'.service_id /\ s.clinic_id = response'.clinic_id} = {}

\* the next answer is to a price request of a clinic without a settings row
\* for a service it holds
NoSettingsRow ==
    /\ response'.op = "price"
    /\ {s \in services : s.id = response'.service_id /\ s.clinic_id = response'.clinic_id} # {}
    /\ OfClinic(global_settings, response'.clinic_id) = {}

\* C7, as claimed: a price request for a service id that does not exist or
\* belongs to another clinic is answered not-found, and so is a request of a
\* clinic whose settings row does not exist
C7_NotFoundOrNoSettings ==
    [][(NoSuchService \/ NoSettingsRow) => response'.status = "not_found"]_vars

\* C7, amended: a price request for a service id that does not exist or
\* belongs to another clinic is answered not-found, with no price record and
\* no row written; a request of a clinic whose settings row does not exist,
\* for a service it holds, is not: the default row is INSERTed and the price
\* is computed from it
C7_NotFound ==
    [][/\ NoSuchService =>
              /\ response'.status = "not_found"
              /\ response'.price = NoPrice
              /\ tables' = tables
       /\ NoSettingsRow =>
              /\ response'.status = "ok"
              /\ OfClinic(global_settings', response'.clinic_id)
                     = {DefaultSettings(response'.clinic_id)}
              /\ response'.price.vat_percent = I(0)
              /\ response'.price.profit_percent = I(40)
              /\ response'.price.currency = "EGP"]_vars

\* C7: a not-found answer to a request for a service of the other clinic
C7_Witness ==
    /\ response.op = "price"
    /\ response.status = "not_found"
    /\ \E s \in services : s.id = response.service_id /\ s.clinic_id # response.clinic_id

\* C8, as claimed: a price calculation, for one service or for all, leaves
\* every row of every table as it was and adds or removes none
C8_NoMutation == [][tables' = tables]_vars

\* C8, amended: a price calculation changes and removes no row; it adds at
\* most the default settings row and the default capacity row of the calling
\* clinic, each only when the clinic had none and has a service to price
C8_OnlyLazyDefaults ==
    [][/\ <<fixed_costs, salaries, equipment, consumables, lab_materials, services,
            service_consumables, service_materials, service_equipment>>'
              = <<fixed_costs, salaries, equipment, consumables, lab_materials, services,
                  service_consumables, service_materials, service_equipment>>
       /\ global_settings \subseteq global_settings'
       /\ clinic_capacity \subseteq clinic_capacity'
       /\ \A r \in global_settings' \ global_settings :
              /\ r = DefaultSettings(response'.clinic_id)
              /\ OfClinic(global_settings, r.clinic_id) = {}
              /\ response'.status # "not_found"
       /\ \A r \in clinic_capacity' \ clinic_capacity :
              /\ r = DefaultCapacity(response'.clinic_id)
              /\ OfClinic(clinic_capacity, r.clinic_id) = {}
              /\ response'.status # "not_found"]_vars

\* C8: a price list computed for a clinic that had neither a settings row
\* nor a capacity row: both default rows are there, and only they
C8_Witness ==
    /\ response.op = "price_list"
    /\ response.status = "ok"
    /\ Len(response.list) = 1
    /\ global_settings = {DefaultSettings(response.clinic_id)}
    /\ clinic_capacity = {DefaultCapacity(response.clinic_id)}

\* C10: two successive price requests for the same service, nothing written
\* between them, get the same answer, field for field
C10_Idempotent ==
    [][(/\ response.op = "price"
        /\ response'.op = "price"
        /\ response'.service_id = response.service_id
        /\ response'.clinic_id = response.clinic_id)
       => response' = response]_vars

\* C10: the record of the first calculation made for a clinic, computed
\* from the default rows it INSERTed, and what a second calculation returns
C10_Witness ==
    /\ Priced
    /\ SettingsRow = DefaultSettings(response.clinic_id)
    /\ CapacityRow = DefaultCapacity(response.clinic_id)
    /\ \A r \in global_settings \cup clinic_capacity : r.clinic_id = response.clinic_id
    /\ ServicePrice(Db, response.service_id, response.clinic_id).price = response.price

\* C9: the record a price request returns is the record computed from one
\* database state among those there were while the request was served,
\* whatever the other requests updated meanwhile
C9_OneSnapshot ==
    (Priced /\ calc.pc = "idle") =>
        \E db \in seen :
            ServicePrice(db, response.service_id, response.clinic_id).price = response.price

\* C9: a record returned by a price request during which two updates were served
C9_TornRead ==
    /\ Priced
    /\ calc.pc = "idle"
    /\ Cardinality(seen) = 3
    /\ \A db \in seen :
           ServicePrice(db, response.service_id, response.clinic_id).price # response.price

\* the rounding increment of the clinic asked for is 0, negative or unset
NoIncrement ==
    \/ SettingsRow.rounding_nearest = NULL
    \/ QLe(SettingsRow.rounding_nearest, I(0))

\* C12: when the rounding increment is 0, negative or unset, a calculation
\* that reached its rounding step completes and returns a record whose
\* rounded_price is the unrounded final price, in both doctor-fee branches
C12_NoRounding ==
    (/\ Calculated
     /\ IsNum(response.locals.final_price_before_rounding)
     /\ NoIncrement)
    => /\ Priced
       /\ response.locals.rounded_price = response.locals.final_price_before_rounding
       /\ response.price.rounded_price = Round2(response.locals.final_price_before_rounding)

\* C12: a price request of a clinic whose rounding increment is unset,
\* answered with the TypeError of the comparison rounding > 0
C12_UnsetRaises ==
    /\ Calculated
    /\ SettingsRow.rounding_nearest = NULL
    /\ IsNum(response.locals.final_price_before_rounding)
    /\ response.status = "error"
    /\ response.raised = TypeError

\* C12: records returned with an increment of 0 and with a negative one
C12_ZeroOrNegative ==
    /\ Priced
    /\ NoIncrement
    /\ SettingsRow.rounding_nearest # NULL
    /\ response.locals.rounded_price = response.locals.final_price_before_rounding

\* C11: no stored equipment row has a life_years of 0, and no price request
\* ends in the ZeroDivisionError of dividing by a useful life of 0
C11_NoZeroLife ==
    /\ \A e \in equipment : e.life_years # I(0)
    /\ ~(response.op = "price" /\ response.raised = ZeroDivisionError)

\* C11: a price request of a clinic that stores an item with life_years 0,
\* answered with the ZeroDivisionError of its depreciation
C11_ZeroLifeRaises ==
    /\ response.op = "price"
    /\ response.status = "error"
    /\ response.raised = ZeroDivisionError
    /\ \E e \in OfClinic(equipment, response.clinic_id) : e.life_years = I(0)

\* the database with the rows of the other clinics taken out of every table
\* that has a clinic_id column
OwnRows(db, clinic_id) ==
    [db EXCEPT !.global_settings = OfClinic(db.global_settings, clinic_id),
               !.clinic_capacity = OfClinic(db.clinic_capacity, clinic_id),
               !.fixed_costs = OfClinic(db.fixed_costs, clinic_id),
               !.salaries = OfClinic(db.salaries, clinic_id),
               !.equipment = OfClinic(db.equipment, clinic_id),
               !.consumables = OfClinic(db.consumables, clinic_id),
               !.lab_materials = OfClinic(db.lab_materials, clinic_id),
               !.services = OfClinic(db.services, clinic_id)]

\* C13: what a price request of a clinic is answered depends only on the rows
\* the clinic owns: it is the answer computed with every row of the other
\* clinics taken away
C13_OwnRowsOnly ==
    response.op = "price" =>
        /\ response.status =
               ServicePrice(OwnRows(Db, response.clinic_id),
                            response.service_id, response.clinic_id).status
        /\ response.price =
               ServicePrice(OwnRows(Db, response.clinic_id),
                            response.service_id, response.clinic_id).price

\* C13: a price was answered for a service of the clinic with a consumable
\* line whose library row belongs to another clinic
C13_ForeignLine ==
    /\ Priced
    /\ \E j \in 1..Len(service_consumables) :
           /\ service_consumables[j].service_id = response.service_id
           /\ \E c \in consumables :
                  /\ c.id = service_consumables[j].consumable_id
                  /\ c.clinic_id # response.clinic_id

\* the rows of a junction table that belong to the services in ids
RowsOf(junction, ids) ==
    {junction[i] : i \in {j \in DOMAIN junction : junction[j].service_id \in ids}}

\* the service rows owned by the clinics other than clinic_id, and the
\* junction rows of those services
ForeignServiceRows(clinic_id) ==
    [services |-> {s \in services : s.clinic_id # clinic_id},
     service_consumables |->
         RowsOf(service_consumables, {s.id : s \in {x \in services : x.clinic_id # clinic_id}}),
     service_materials |->
         RowsOf(service_materials, {s.id : s \in {x \in services : x.clinic_id # clinic_id}}),
     service_equipment |->
         RowsOf(service_equipment, {s.id : s \in {x \in services : x.clinic_id # clinic_id}})]

\* C14: an update service, delete service, delete consumable or delete
\* material request made with a clinic's session leaves every service row of
\* the other clinics, and every junction row of those services, as it was
C14_Confined ==
    [][\A clinic_id \in Clinics :
           (/\ writes' # writes
            /\ response'.clinic_id = clinic_id
            /\ response'.op \in {"update_service", "delete_service",
                                 "delete_consumable", "delete_material"})
           => ForeignServiceRows(clinic_id)' = ForeignServiceRows(clinic_id)]_vars

\* C14: a delete service request answered to a clinic for a service of
\* another clinic: the service is still there, its consumable rows are not
C14_ForeignRowsGone ==
    /\ response.op = "delete_service"
    /\ response.status = "ok"
    /\ \E s \in services :
           /\ s.id = response.service_id
           /\ s.clinic_id # response.clinic_id
           /\ RowsOf(service_consumables, {s.id}) = {}
           /\ RowsOf(service_materials, {s.id}) = {}

\* the ids of the service rows
ServiceRowIds(table) == {s.id : s \in table}

\* the junction rows of one service, table by table
JunctionRows(service_id) ==
    <<RowsOf(service_consumables, {service_id}),
      RowsOf(service_materials, {service_id}),
      RowsOf(service_equipment, {service_id})>>

\* C15: a delete service request of the clinic that owns the service removes
\* the service row and every junction row of it; no junction row is left that
\* names a service that does not exist; and a delete service request that
\* leaves the service row in place leaves its junction rows in place
C15_DestroyedTogether ==
    [][\A service_id \in ServiceIds, clinic_id \in Clinics :
           (/\ writes' # writes
            /\ response'.op = "delete_service"
            /\ response'.service_id = service_id
            /\ response'.clinic_id = clinic_id)
           => /\ (\E s \in services : s.id = service_id /\ s.clinic_id = clinic_id)
                 => /\ service_id \notin ServiceRowIds(services')
                    /\ JunctionRows(service_id)' = <<{}, {}, {}>>
              /\ \A id \in ServiceIds \ ServiceRowIds(services') :
                     JunctionRows(id)' = <<{}, {}, {}>>
              /\ service_id \in ServiceRowIds(services')
                 => JunctionRows(service_id)' = JunctionRows(service_id)]_vars

\* C15: a delete service request was answered, the service row is still
\* there and none of its junction rows is
C15_ServiceLeftBare ==
    /\ response.op = "delete_service"
    /\ response.service_id \in ServiceRowIds(services)
    /\ JunctionRows(response.service_id) = <<{}, {}, {}>>

\* C15: a delete service request of the owner was answered: the row and its
\* junction rows are gone
C15_OwnerDeleted ==
    /\ response.op = "delete_service"
    /\ response.status = "ok"
    /\ response.service_id \notin ServiceRowIds(services)
    /\ JunctionRows(response.service_id) = <<{}, {}, {}>>

\* a delete request of the clinic that owns the item was answered in this step
OwnerDeleted(op, table, id, clinic_id) ==
    /\ writes' # writes
    /\ response'.op = op
    /\ response'.status = "ok"
    /\ response'.service_id = id
    /\ response'.clinic_id = clinic_id
    /\ \E x \in table : x.id = id /\ x.clinic_id = clinic_id

\* C16: after a delete consumable (delete material) request of the clinic
\* that owns the item, the item is gone, no junction row names it, the service
\* rows are what they were, and every service is priced as it was priced
\* before with the lines of the item struck from it
C16_Detached ==
    [][\A id \in LibraryIds, clinic_id \in Clinics :
           /\ OwnerDeleted("delete_consumable", consumables, id, clinic_id)
              => /\ \A x \in consumables' : x.id # id
                 /\ \A i \in DOMAIN service_consumables' :
                        service_consumables'[i].consumable_id # id
                 /\ services' = services
                 /\ \A s \in services :
                        ServicePrice(Db', s.id, s.clinic_id)
                            = ServicePrice([Db EXCEPT !.service_consumables =
                                                Without(@, "consumable_id", id)],
                                           s.id, s.clinic_id)
           /\ OwnerDeleted("delete_material", lab_materials, id, clinic_id)
              => /\ \A x \in lab_materials' : x.id # id
                 /\ \A i \in DOMAIN service_materials' :
                        service_materials'[i].material_id # id
                 /\ services' = services
                 /\ \A s \in services :
                        ServicePrice(Db', s.id, s.clinic_id)
                            = ServicePrice([Db EXCEPT !.service_materials =
                                                Without(@, "material_id", id)],
                                           s.id, s.clinic_id)]_vars

\* C16: the first write was the owner's delete of a consumable its service
\* used: the consumable is gone, the service is there without the line and
\* is priced
C16_ConsumableDetached ==
    /\ writes = 1
    /\ response.op = "delete_consumable"
    /\ response.status = "ok"
    /\ \A x \in consumables : x.id # response.service_id
    /\ \E s \in OfClinic(services, response.clinic_id) :
           /\ RowsOf(service_consumables, {s.id}) = {}
           /\ RowsOf(service_materials, {s.id}) # {}
           /\ ServicePrice(Db, s.id, s.clinic_id).status = "ok"
           /\ ServicePrice(Db, s.id, s.clinic_id).price.consumables_cost = I(0)

\* C17: a delete equipment request of the clinic that owns an item which a
\* service_equipment row or a service's equipment_id names is answered with
\* success; afterwards the item is gone and no service_equipment row and no
\* service names it, and the services of the clinic are priced
C17_EquipmentDetached ==
    [][\A id \in EquipmentIds \cup LibraryIds, clinic_id \in Clinics :
           (/\ writes' # writes
            /\ response'.op = "delete_equipment"
            /\ response'.service_id = id
            /\ response'.clinic_id = clinic_id
            /\ \E x \in equipment : x.id = id /\ x.clinic_id = clinic_id
            /\ EquipmentReferenced(Db, id))
           => /\ response'.status = "ok"
              /\ \A x \in equipment' : x.id # id
              /\ \A i \in DOMAIN service_equipment' :
                     service_equipment'[i].equipment_id # id
              /\ \A s \in services' : s.equipment_id # id
              /\ \A s \in OfClinic(services', clinic_id) :
                     ServicePrice(Db', s.id, clinic_id).status = "ok"]_vars

\* C17: a delete equipment request was refused: the item is still stored and
\* a service_equipment row or a service still names it
C17_DeleteRefused ==
    /\ response.op = "delete_equipment"
    /\ response.status = "error"
    /\ response.raised = IntegrityError
    /\ \E x \in OfClinic(equipment, response.clinic_id) : x.id = response.service_id
    /\ EquipmentReferenced(Db, response.service_id)

\* every clinic has at most one global_settings row and at most one
\* clinic_capacity row
OnePerClinic ==
    \A clinic_id \in Clinics :
        /\ Cardinality(OfClinic(global_settings, clinic_id)) <= 1
        /\ Cardinality(OfClinic(clinic_capacity, clinic_id)) <= 1

\* a settings (capacity) request of a clinic that has no row stores exactly
\* the default row and, when it answers, answers it
LazyDefaults ==
    \A clinic_id \in Clinics :
        /\ (/\ response'.op = "get_capacity"
            /\ response'.clinic_id = clinic_id
            /\ OfClinic(clinic_capacity, clinic_id) = {})
           => /\ clinic_capacity' = clinic_capacity \cup {DefaultCapacity(clinic_id)}
              /\ response'.status = "ok"
              /\ response'.list = <<DefaultCapacity(clinic_id)>>
        /\ (/\ response'.op = "get_settings"
            /\ response'.clinic_id = clinic_id
            /\ OfClinic(global_settings, clinic_id) = {})
           => /\ global_settings' = global_settings \cup {DefaultSettings(clinic_id)}
              /\ response'.status = "ok"
                 => \A f \in DOMAIN DefaultSettings(clinic_id) :
                        response'.list[1][f] = DefaultSettings(clinic_id)[f]

\* C19: every clinic has at most one global_settings row and at most one
\* clinic_capacity row in every state, and a get_global_settings
\* (get_clinic_capacity) of a clinic without a row creates exactly the row of
\* the defaults and returns it
C19_LazyOnePerClinic == []OnePerClinic /\ [][LazyDefaults]_vars

\* C19: before any write, a capacity request of a clinic with no settings row
\* yet was answered the default row, which is now the clinic's one stored row
C19_CapacityCreated ==
    /\ writes = 0
    /\ response.op = "get_capacity"
    /\ response.status = "ok"
    /\ response.list = <<DefaultCapacity(response.clinic_id)>>
    /\ OfClinic(clinic_capacity, response.clinic_id) = {DefaultCapacity(response.clinic_id)}
    /\ OfClinic(global_settings, response.clinic_id) = {}

\* C19: a settings request was answered after an update of the settings, and
\* the clinic has the one updated row
C19_SettingsKept ==
    /\ response.op = "get_settings"
    /\ response.status = "ok"
    /\ \E r \in OfClinic(global_settings, response.clinic_id) :
           /\ r # DefaultSettings(response.clinic_id)
           /\ OfClinic(global_settings, response.clinic_id) = {r}

\* C20: every stored clinic_capacity row has a utilization_percent from 0 to
\* 100, and the effective hours computed from it are not negative
C20_UtilizationInRange ==
    \A r \in clinic_capacity :
        /\ QLe(I(0), r.utilization_percent)
        /\ QLe(r.utilization_percent, I(100))
        /\ QLe(I(0), EffectiveHours(r))

\* C20: a price was answered to a clinic whose stored utilization_percent is
\* negative, from effective hours below 0
C20_NegativeHours ==
    /\ Priced
    /\ \E r \in OfClinic(clinic_capacity, response.clinic_id) :
           /\ ~QLe(I(0), r.utilization_percent)
           /\ ~QLe(I(0), EffectiveHours(r))
           /\ response.price.effective_hours = Round2(EffectiveHours(r))

\* C20: a clinic stores a utilization_percent above 100
C20_AboveHundred ==
    \E r \in clinic_capacity : ~QLe(r.utilization_percent, I(100))

\* C18: every price request made side by side with another is answered what
\* it is answered when made alone: the record, or the 404, of the calculation
\* on the stored rows, whether or not the clinic had its settings and
\* capacity rows when the requests began
C18_AllComplete ==
    \A r \in Requests :
        calc[r].pc = "done" =>
            calc[r].answer =
                PriceResponse(calc[r].clinic_id, calc[r].service_id,
                              ServicePrice(Db, calc[r].service_id, calc[r].clinic_id))

\* C18: two price requests of one clinic: one was answered its record, the
\* other the IntegrityError of the INSERT of a row the clinic already had
C18_DuplicateInsert ==
    \E r \in Requests, o \in Requests :
        /\ calc[r].pc = "done"
        /\ calc[r].answer.status = "error"
        /\ calc[r].answer.raised = IntegrityError
        /\ calc[o].pc = "done"
        /\ calc[o].answer.status = "ok"
        /\ calc[o].clinic_id = calc[r].clinic_id

\* the ids of the records of the last price list, and of the services listed for it
RecordIds == {response.list[i].id : i \in DOMAIN response.list}
ListedServices == {calc.listed[j] : j \in DOMAIN calc.listed}

\* the price list holds one record per service the clinic has and had when
\* they were listed, the record calculate_service_price returns for it, and
\* no record of any service that was not listed for the clinic
OnePerService ==
    /\ \A s \in ListedServices \cap services :
           \E i \in DOMAIN response.list :
               /\ response.list[i] =
                      [id |-> s.id] @@ ServicePrice(Db, s.id, calc.clinic_id).price
               /\ \A k \in DOMAIN response.list : response.list[k].id = s.id => k = i
    /\ \A i \in DOMAIN response.list :
           \E s \in ListedServices : s.id = response.list[i].id /\ s.clinic_id = calc.clinic_id
    /\ Len(response.list) <= Len(calc.listed)
    /\ writes = 0 => RecordIds = {s.id : s \in OfClinic(services, calc.clinic_id)}

C21_DeletedOmitted ==
    /\ response.op = "price_list"
    /\ response.status = "ok"
    /\ Len(calc.listed) = 2
    /\ Len(response.list) = 1
    /\ writes = 1

\* C21: a price-list request answered the exception of one service while the
\* clinic's other service is priced
C21_BatchRaised ==
    /\ response.op = "price_list"
    /\ response.status = "error"
    /\ \E s \in ListedServices \cap services :
           ServicePrice(Db, s.id, calc.clinic_id).status = "ok"

\* the unrounded local variables of the last calculation
Local == response.locals

\* base = chair_time_cost + equipment_cost + materials_cost, and the two
\* multipliers 1 + profit_percent/100 and 1 + vat_percent/100 of the last calculation
Base == QAdd(QAdd(Local.chair_time_cost, Local.equipment_cost), Local.materials_cost)
ProfitMult == QAdd(I(1), QDiv(Local.profit_percent, I(100)))
VatMult == QAdd(I(1), QDiv(SettingsRow.vat_percent, I(100)))

\* a returned record of a percentage-mode service of a clinic whose rounding
\* increment is 0 or negative
PercentagePricedUnrounded ==
    /\ Priced
    /\ Asked.doctor_fee_type = "percentage"
    /\ SettingsRow.rounding_nearest # NULL
    /\ QLe(SettingsRow.rounding_nearest, I(0))

\* C22, as claimed: in percentage mode with no rounding the price P is the
\* fixed point of the ordinary composition: total cost = base + P *
\* doctor_percentage/100, then profit and VAT on the total cost, give P
C22_FixedPoint ==
    PercentagePricedUnrounded =>
        QMul(QMul(QAdd(Base, QMul(AskedFraction, Local.rounded_price)), ProfitMult), VatMult)
            = Local.rounded_price

\* C22, amended: in percentage mode with no rounding the price P is the fixed
\* point of the composition that applies profit and VAT to base alone and adds
\* the doctor fee to the marked-up price: base * profit_mult * vat_mult + P *
\* doctor_percentage/100 gives P
C22_FixedPointOfMarkedUpBase ==
    PercentagePricedUnrounded =>
        QAdd(QMul(QMul(Base, ProfitMult), VatMult), QMul(AskedFraction, Local.rounded_price))
            = Local.rounded_price

\* C22: a percentage-mode price of a service with costs, a fee percentage,
\* profit and VAT, no rounding applied
C22_Witness ==
    /\ PercentagePricedUnrounded
    /\ QLt(I(0), Base)
    /\ QLt(I(0), AskedFraction)
    /\ QLt(I(1), ProfitMult)
    /\ QLt(I(1), VatMult)
    /\ QLt(I(0), Local.rounded_price)

\* the distance of two numbers
Distance(a, b) == QAbs(QSub(a, b))

\* chair_time_cost + doctor_fee + equipment_cost + materials_cost of a record
\* or of the local variables
ComponentSum(r) ==
    QAdd(QAdd(QAdd(r.chair_time_cost, r.doctor_fee), r.equipment_cost), r.materials_cost)

\* five roundings to 2 decimals, each off by at most half a cent
OutputRounding == Q(25, 1000)

C23_HourlySum ==
    /\ Priced
    /\ Asked.doctor_fee_type = "hourly"
    /\ QLt(I(0), response.price.doctor_fee)
    /\ QLt(I(0), response.price.materials_cost)
    /\ response.price.total_cost = ComponentSum(response.price)

\* a returned record of a percentage-mode service
PercentageRecord == Priced /\ Asked.doctor_fee_type = "percentage"

\* the components of r sum: price_before_vat + vat_amount = rounded_price =
\* final_price, and total_cost + profit_amount = price_before_vat
SumsConsistently(r) ==
    /\ QAdd(r.price_before_vat, r.vat_amount) = r.rounded_price
    /\ r.rounded_price = r.final_price
    /\ QAdd(r.total_cost, r.profit_amount) = r.price_before_vat

\* C24, as claimed: in percentage mode the price before rounding is base *
\* (1 + profit_percent/100) * (1 + vat_percent/100) / (1 - doctor_percentage/100),
\* the reported components sum (price_before_vat + vat_amount = rounded_price
\* = final_price, total_cost + profit_amount = price_before_vat) and
\* total_cost is rounded_price / ((1 + vat_percent/100) * (1 + profit_percent/100))
C24_BackDerived ==
    PercentageRecord =>
        /\ Local.final_price_before_rounding =
               QDiv(QMul(QMul(Base, ProfitMult), VatMult), QSub(I(1), AskedFraction))
        /\ SumsConsistently(response.price)
        /\ response.price.total_cost =
               Round2(QDiv(response.price.rounded_price, QMul(VatMult, ProfitMult)))

\* three roundings to 2 decimals, each off by at most half a cent
ThreeRoundings == Q(15, 1000)

\* C24, amended: in percentage mode the price before rounding is base *
\* profit_mult * vat_mult / (1 - doctor_percentage/100); before the output
\* rounding the components sum exactly and total_cost is rounded_price /
\* (vat_mult * profit_mult); the record holds each component rounded to 2
\* decimals, so its sums agree within the three roundings
C24_BackDerivedBeforeOutput ==
    PercentageRecord =>
        /\ Local.final_price_before_rounding =
               QDiv(QMul(QMul(Base, ProfitMult), VatMult), QSub(I(1), AskedFraction))
        /\ SumsConsistently(Local)
        /\ Local.total_cost = QDiv(Local.rounded_price, QMul(VatMult, ProfitMult))
        /\ \A f \in {"price_before_vat", "vat_amount", "rounded_price", "final_price",
                     "total_cost", "profit_amount"} :
               response.price[f] = Round2(Local[f])
        /\ response.price.rounded_price = response.price.final_price
        /\ QLe(Distance(QAdd(response.price.price_before_vat, response.price.vat_amount),
                        response.price.rounded_price), ThreeRoundings)
        /\ QLe(Distance(QAdd(response.price.total_cost, response.price.profit_amount),
                        response.price.price_before_vat), ThreeRoundings)

\* C24: a percentage-mode record with VAT and profit whose price the rounding
\* increment changed, and whose total_cost and profit_amount do not sum to
\* its price_before_vat
C24_Witness ==
    /\ PercentageRecord
    /\ QLt(I(1), VatMult)
    /\ QLt(I(1), ProfitMult)
    /\ Local.rounded_price # Local.final_price_before_rounding
    /\ QAdd(response.price.total_cost, response.price.profit_amount)
           # response.price.price_before_vat

\* a returned record of a service in hourly or fixed doctor-fee mode
StandardRecord == Priced /\ Asked.doctor_fee_type \in {"hourly", "fixed"}

\* y is x rounded to the increment: x itself when the increment is not
\* positive, else a whole multiple of the increment at most half of it away
RoundedTo(y, x, increment) ==
    IF QLt(I(0), increment)
    THEN /\ QDiv(y, increment)[2] = 1
         /\ QLe(Distance(y, x), QDiv(increment, I(2)))
    ELSE y = x

\* C25: in hourly and fixed mode doctor_fee is doctor_hourly_fee *
\* chair_time_hours or doctor_fixed_fee, total_cost the sum of the four
\* components, profit_amount = total_cost * profit_percent/100,
\* price_before_vat = total_cost + profit_amount, vat_amount =
\* price_before_vat * vat_percent/100, final_price = price_before_vat +
\* vat_amount, rounded_price final_price rounded to the increment; the record
\* holds each of them rounded to 2 decimals
C25_StandardComposition ==
    StandardRecord =>
        /\ Local.doctor_fee =
               IF Asked.doctor_fee_type = "hourly"
               THEN QMul(Asked.doctor_hourly_fee, Asked.chair_time_hours)
               ELSE Asked.doctor_fixed_fee
        /\ Local.total_cost = ComponentSum(Local)
        /\ Local.profit_amount = QDiv(QMul(Local.total_cost, Local.profit_percent), I(100))
        /\ Local.price_before_vat = QAdd(Local.total_cost, Local.profit_amount)
        /\ Local.vat_amount = QDiv(QMul(Local.price_before_vat, SettingsRow.vat_percent), I(100))
        /\ Local.final_price = QAdd(Local.price_before_vat, Local.vat_amount)
        /\ RoundedTo(Local.rounded_price, Local.final_price, SettingsRow.rounding_nearest)
        /\ \A f \in {"doctor_fee", "total_cost", "profit_amount", "price_before_vat",
                     "vat_amount", "final_price", "rounded_price"} :
               response.price[f] = Round2(Local[f])

\* C25: an hourly-mode record with a doctor fee, VAT and profit, whose final
\* price the rounding increment changed
C25_Witness ==
    /\ StandardRecord
    /\ Asked.doctor_fee_type = "hourly"
    /\ QLt(I(0), Local.doctor_fee)
    /\ QLt(I(0), Local.vat_amount)
    /\ QLt(I(0), Local.profit_amount)
    /\ Local.rounded_price # Local.final_price

\* C25: a fixed-mode record with its fixed fee and VAT
C25_FixedFee ==
    /\ StandardRecord
    /\ Asked.doctor_fee_type = "fixed"
    /\ Local.doctor_fee = I(250)
    /\ QLt(I(0), Local.vat_amount)

\* the last calculation rounded its price to a positive increment
RoundedRecord ==
    /\ Priced
    /\ SettingsRow.rounding_nearest # NULL
    /\ QLt(I(0), SettingsRow.rounding_nearest)

\* C26: with a rounding increment r > 0, rounded_price is a whole multiple of
\* r and no further than r/2 from the price before rounding (so, when that
\* price is halfway between two multiples, one of the two)
C26_NearestMultiple ==
    RoundedRecord =>
        /\ QDiv(Local.rounded_price, SettingsRow.rounding_nearest)[2] = 1
        /\ QLe(Distance(Local.rounded_price, Local.final_price_before_rounding),
               QDiv(SettingsRow.rounding_nearest, I(2)))

\* C26: a price exactly halfway between two multiples of the increment was rounded
C26_Halfway ==
    /\ RoundedRecord
    /\ Distance(Local.rounded_price, Local.final_price_before_rounding)
           = QDiv(SettingsRow.rounding_nearest, I(2))

\* C26: a price was rounded up to a multiple of an increment above 1
C26_RoundedUp ==
    /\ RoundedRecord
    /\ QLt(I(1), SettingsRow.rounding_nearest)
    /\ QLt(Local.final_price_before_rounding, Local.rounded_price)

\* (purchase_cost / (life_years * 12) / monthly_usage_hours) * hours_used for
\* a per-hour item with monthly usage hours, 0 for any other item
PerHourCharge(e, hours_used) ==
    IF /\ e.allocation_type = "per-hour"
       /\ e.monthly_usage_hours # NULL
       /\ QLt(I(0), e.monthly_usage_hours)
    THEN QMul(QDiv(QDiv(e.purchase_cost, QMul(e.life_years, I(12))), e.monthly_usage_hours),
              hours_used)
    ELSE I(0)

\* the charge of the service_equipment rows of the service asked for
RowsCharge ==
    SumSet([i \in LinesOf(service_equipment) |->
               SumSet([e \in {x \in ClinicEquipment :
                                 x.id = service_equipment[i].equipment_id} |->
                          PerHourCharge(e, service_equipment[i].hours_used)])])

\* the charge of the legacy equipment_id / equipment_hours_used pair
LegacyCharge ==
    IF Asked.equipment_hours_used = NULL THEN I(0)
    ELSE SumSet([e \in {x \in ClinicEquipment : x.id = Asked.equipment_id} |->
                    PerHourCharge(e, Asked.equipment_hours_used)])

\* C27: equipment_cost is the sum of the per-hour charges of the service's
\* service_equipment rows, an item with no or zero monthly usage hours
\* charged 0, and the legacy pair ignored, when the service has such rows;
\* it is the charge of the legacy pair when the service has none
C27_EquipmentCost ==
    Calculated =>
        Local.equipment_cost =
            IF LinesOf(service_equipment) # {} THEN RowsCharge ELSE LegacyCharge

\* C27: a service with a service_equipment row of a charged per-hour item and
\* a legacy pair that would be charged too: the rows alone are charged
C27_Witness ==
    /\ Priced
    /\ LinesOf(service_equipment) # {}
    /\ QLt(I(0), RowsCharge)
    /\ QLt(I(0), LegacyCharge)
    /\ Local.equipment_cost = RowsCharge

\* C27: a service charged its legacy pair
C27_LegacyCharged ==
    /\ Priced
    /\ LinesOf(service_equipment) = {}
    /\ QLt(I(0), Local.equipment_cost)

\* C27: a service whose one row names a per-hour item with no or zero
\* monthly usage hours: priced, the item charged 0
C27_NoUsageHours ==
    /\ Priced
    /\ LinesOf(service_equipment) # {}
    /\ \A i \in LinesOf(service_equipment) : \E e \in ClinicEquipment :
           /\ e.id = service_equipment[i].equipment_id
           /\ e.allocation_type = "per-hour"
           /\ ~Truthy(e.monthly_usage_hours)
    /\ Local.equipment_cost = I(0)

\* C28: the profit percent of a record is the clinic's default_profit_percent
\* when the service's use_default_profit is set and the service's
\* custom_profit_percent otherwise, and a price request for a service with
\* the flag cleared and no custom percent stored returns a record with a
\* profit percent
C28_ProfitResolved ==
    /\ Priced =>
           response.price.profit_percent =
               IF Asked.use_default_profit # 0 THEN SettingsRow.default_profit_percent
               ELSE Asked.custom_profit_percent
    /\ (/\ response.op = "price"
        /\ Asked # None
        /\ Asked.use_default_profit = 0
        /\ Asked.custom_profit_percent = NULL)
       => /\ response.status = "ok"
          /\ response.price.profit_percent # NULL

\* C28: a price request for a service with use_default_profit cleared and no
\* custom_profit_percent, answered with the TypeError of None / 100
C28_NoPercentRaises ==
    /\ response.op = "price"
    /\ response.status = "error"
    /\ response.raised = TypeError
    /\ Asked # None
    /\ Asked.use_default_profit = 0
    /\ Asked.custom_profit_percent = NULL
    /\ SettingsRow.rounding_nearest # NULL

\* C28: a record with the custom percent of its service, the flag cleared
C28_CustomApplied ==
    /\ Priced
    /\ Asked.use_default_profit = 0
    /\ response.price.profit_percent = I(60)
    /\ response.price.profit_percent # SettingsRow.default_profit_percent

\* the overhead rate and the effective hours the three places return for the
\* clinic of the last request on the stored rows
SettingsRate == GetGlobalSettings(Db, response.clinic_id).total_overhead_per_hour
DashboardRow == DashboardStats(Db, response.clinic_id)
PricedServices ==
    {s \in OfClinic(services, response.clinic_id) :
        ServicePrice(Db, s.id, response.clinic_id).status = "ok"}

\* C29: the overhead rate answered by get_global_settings, by
\* calculate_service_price for any service of the clinic and by the
\* dashboard statistics is one number, whichever of them was asked last, and
\* every record of a price list carries one chair_hourly_rate and one
\* effective_hours
C29_RatesAgree ==
    /\ (response.op = "get_settings" /\ response.status = "ok") =>
           /\ response.list[1].total_overhead_per_hour = DashboardRow.chair_hourly_rate
           /\ \A s \in PricedServices :
                  response.list[1].total_overhead_per_hour =
                      ServicePrice(Db, s.id, response.clinic_id).price.chair_hourly_rate
    /\ (response.op = "dashboard" /\ response.status = "ok") =>
           /\ response.list[1].chair_hourly_rate = SettingsRate
           /\ \A s \in PricedServices :
                  /\ response.list[1].chair_hourly_rate =
                         ServicePrice(Db, s.id, response.clinic_id).price.chair_hourly_rate
                  /\ response.list[1].effective_hours =
                         ServicePrice(Db, s.id, response.clinic_id).price.effective_hours
    /\ Priced =>
           /\ response.price.chair_hourly_rate = SettingsRate
           /\ response.price.chair_hourly_rate = DashboardRow.chair_hourly_rate
           /\ response.price.effective_hours = DashboardRow.effective_hours
    /\ (response.op = "price_list" /\ response.status = "ok") =>
           \A i \in DOMAIN response.list :
               /\ response.list[i].chair_hourly_rate = response.list[1].chair_hourly_rate
               /\ response.list[i].effective_hours = response.list[1].effective_hours
               /\ response.list[i].chair_hourly_rate = SettingsRate
               /\ response.list[i].chair_hourly_rate = DashboardRow.chair_hourly_rate

\* C29: the dashboard statistics answered a clinic with a cost pool and two
\* services a rate above 0 that is not a whole number
C29_Witness ==
    /\ response.op = "dashboard"
    /\ response.status = "ok"
    /\ QLt(I(0), response.list[1].chair_hourly_rate)
    /\ response.list[1].chair_hourly_rate[2] # 1
    /\ response.list[1].total_services = 2
    /\ Cardinality(PricedServices) = 2

\* C29: a price list of two records with one rate above 0
C29_ListOfTwo ==
    /\ response.op = "price_list"
    /\ response.status = "ok"
    /\ Len(response.list) = 2
    /\ QLt(I(0), response.list[1].chair_hourly_rate)

\* the reset request r changed a password
Succeeded(r) == calc[r].pc = "done" /\ calc[r].result = "success"

\* C30: a password reset token changes a password at most once: no two
\* reset requests, one after the other or at the same time, succeed with one
\* token
C30_AtMostOnce ==
    \A r1, r2 \in Resets :
        (Succeeded(r1) /\ Succeeded(r2) /\ calc[r1].token = calc[r2].token) => r1 = r2

\* C30: a reset request that begins after another succeeded with the same
\* token is refused
C30_LaterCallFails ==
    [][\A r, r2 \in Resets :
          (/\ Succeeded(r2)
           /\ calc[r].pc = "idle"
           /\ calc'[r].pc # "idle"
           /\ calc'[r].token = calc[r2].token)
          => (calc'[r].pc = "done" /\ calc'[r].result # "success")]_vars

\* C30: a request changes a password only with a token that is stored and
\* unused at that moment, so not with a token replaced by a newer one
C30_OnlyStoredUnused ==
    [][\A r \in Resets :
          (~Succeeded(r) /\ Succeeded(r)')
          => \E t \in password_reset_tokens :
                 t.token_hash = HashToken(calc[r].token) /\ t.used = 0]_vars

\* C30: both reset requests changed the password of one user with one token,
\* to two different passwords
C30_SpentTwice ==
    /\ Succeeded(1)
    /\ Succeeded(2)
    /\ calc[1].token = calc[2].token
    /\ calc[1].new_password # calc[2].new_password

\* C30: a request changed a password with a token whose row a newer token
\* had replaced
C30_ReplacedTokenSpent ==
    \E r \in Resets :
        /\ Succeeded(r)
        /\ \A t \in password_reset_tokens : t.token_hash # HashToken(calc[r].token)
        /\ \E t \in password_reset_tokens : t.user_id = calc[r].user_id /\ t.used = 0

====
